---- MODULE Spec2Model ----
(***************************************************************************)
(* The YAML pod-manifest validator "yamlvalid" in its three variants.      *)
(*                                                                         *)
(* The full variant (the file src/unnamed/part_001 with getMappingValue,   *)
(* validateMappingField and validateDocument): the tree walker             *)
(* validateDocument and its section validators, and the driver main that   *)
(* runs it on the documents of root.Content and reports.  Its definitions  *)
(* carry the names of the source.                                          *)
(*                                                                         *)
(* The monolithic variant (src/main.go), whose main holds the rules        *)
(* inline: its definitions are prefixed maingo_.  The minimal variant      *)
(* (src/unnamed/part_000), which checks spec.os, the readinessProbe port   *)
(* and requests.cpu only: its definitions are prefixed part000_.           *)
(*                                                                         *)
(* prog is the variant that is run.                                        *)
(*                                                                         *)
(*                                                                         *)
(* data is the file: the documents it holds, each as the node tree the     *)
(* YAML parser builds for it.  yaml.Unmarshal decodes the first document   *)
(* of its input only, so root.Content holds at most one of them.           *)
(*                                                                         *)
(* A yaml.Node is a record [Kind, Tag, Value, Line, Content]; a Go nil     *)
(* pointer is the record Nil.  A mapping node's Content alternates key and *)
(* value nodes, as in gopkg.in/yaml.v3.  Texts are strings, examined       *)
(* character by character with Len and SubSeq.                             *)
(*                                                                         *)
(* A diagnostic is the record [file, line, msg, arg]: the line printed by  *)
(* fmt.Sprintf("%s:%d <msg>", file, line, arg).  The formats of the code   *)
(* that have no %d ("%s: %s is required") give line = NoLine.              *)
(***************************************************************************)
EXTENDS Integers, Sequences, FiniteSets, TLC

VARIABLES prog, args, data, root, filename, errors, idx, pc, stderr, exitCode

vars == <<prog, args, data, root, filename, errors, idx, pc, stderr, exitCode>>

-----------------------------------------------------------------------------
(* yaml.Node                                                               *)

Nil == [Kind |-> "Nil", Tag |-> "", Value |-> "", Line |-> 0, Content |-> <<>>]

\* the zero yaml.Node: what "var root yaml.Node" holds before Unmarshal
ZeroNode == [Kind |-> "", Tag |-> "", Value |-> "", Line |-> 0, Content |-> <<>>]

DocumentNode(content) ==
    [Kind |-> "DocumentNode", Tag |-> "", Value |-> "", Line |-> 1, Content |-> content]

NoLine == 0

Scalar(tag, value, line) ==
    [Kind |-> "ScalarNode", Tag |-> tag, Value |-> value, Line |-> line,
     Content |-> <<>>]

StrNode(value, line) == Scalar("!!str", value, line)

IntNode(value, line) == Scalar("!!int", value, line)

Mapping(line, content) ==
    [Kind |-> "MappingNode", Tag |-> "!!map", Value |-> "", Line |-> line,
     Content |-> content]

Sequence(line, content) ==
    [Kind |-> "SequenceNode", Tag |-> "!!seq", Value |-> "", Line |-> line,
     Content |-> content]

-----------------------------------------------------------------------------
(* Text helpers: strings.HasPrefix, strings.Contains, strconv.Atoi and the *)
(* two regular expressions of the validator.                               *)

Digits == {"0", "1", "2", "3", "4", "5", "6", "7", "8", "9"}

LowerLetters ==
    {"a", "b", "c", "d", "e", "f", "g", "h", "i", "j", "k", "l", "m",
     "n", "o", "p", "q", "r", "s", "t", "u", "v", "w", "x", "y", "z"}

CharAt(s, i) == SubSeq(s, i, i)

HasPrefix(s, prefix) ==
    /\ Len(s) >= Len(prefix)
    /\ SubSeq(s, 1, Len(prefix)) = prefix

Contains(s, ch) == \E i \in 1..Len(s) : CharAt(s, i) = ch

AllDigits(s) == \A i \in 1..Len(s) : CharAt(s, i) \in Digits

DigitVal(c) ==
    CASE c = "0" -> 0 [] c = "1" -> 1 [] c = "2" -> 2 [] c = "3" -> 3
      [] c = "4" -> 4 [] c = "5" -> 5 [] c = "6" -> 6 [] c = "7" -> 7
      [] c = "8" -> 8 [] c = "9" -> 9

RECURSIVE DecimalValue(_)
DecimalValue(s) ==
    IF Len(s) = 0 THEN 0
    ELSE 10 * DecimalValue(SubSeq(s, 1, Len(s) - 1)) + DigitVal(CharAt(s, Len(s)))

\* strconv.Atoi: an optional sign, then one or more decimal digits.
\* err is TRUE for every other text (hexadecimal, octal 0o, underscores, "").
Atoi(s) ==
    LET signed == Len(s) > 0 /\ CharAt(s, 1) \in {"+", "-"}
        body   == IF signed THEN SubSeq(s, 2, Len(s)) ELSE s
    IN  IF Len(body) = 0 \/ ~AllDigits(body)
        THEN [val |-> 0, err |-> TRUE]
        ELSE [val |-> IF signed /\ CharAt(s, 1) = "-"
                      THEN 0 - DecimalValue(body) ELSE DecimalValue(body),
              err |-> FALSE]

\* regexp "^[a-z0-9]+(_[a-z0-9]+)*$"
MatchSnakeCase(s) ==
    /\ Len(s) > 0
    /\ \A i \in 1..Len(s) : CharAt(s, i) \in LowerLetters \cup Digits \cup {"_"}
    /\ CharAt(s, 1) # "_"
    /\ CharAt(s, Len(s)) # "_"
    /\ \A i \in 1..(Len(s) - 1) : ~(CharAt(s, i) = "_" /\ CharAt(s, i + 1) = "_")

MemoryUnits == {"Ki", "Mi", "Gi"}

\* MatchMemory with the unit alternation widened to every binary prefix
MatchMemoryEveryBinaryUnit(s) ==
    /\ Len(s) >= 3
    /\ SubSeq(s, Len(s) - 1, Len(s)) \in MemoryUnits \cup {"Ti", "Pi", "Ei"}
    /\ AllDigits(SubSeq(s, 1, Len(s) - 2))

\* regexp `^[0-9]+(Ki|Mi|Gi)$`
MatchMemory(s) ==
    /\ Len(s) >= 3
    /\ SubSeq(s, Len(s) - 1, Len(s)) \in MemoryUnits
    /\ AllDigits(SubSeq(s, 1, Len(s) - 2))

ImagePrefix == "registry.bigbrother.io/"

\* the condition of validateContainer on the image text
ImageOk(img) ==
    /\ Len(img) > Len(ImagePrefix)
    /\ HasPrefix(img, ImagePrefix)
    /\ Contains(SubSeq(img, Len(ImagePrefix) + 1, Len(img)), ":")

PortMin == 1

PortMax == 65535

-----------------------------------------------------------------------------
(* Diagnostics                                                             *)

Diag(file, line, msg, arg) == [file |-> file, line |-> line, msg |-> msg, arg |-> arg]

\* "%s: %s is required": the format of validateMappingField has no line
Required(file, field) == Diag(file, NoLine, field \o " is required", "")

-----------------------------------------------------------------------------
(* The validators.  Each takes the errors slice and returns it, extended.  *)

\* index of the first key k of a mapping with k.Kind scalar and k.Value = key
KeyPositions(node, key) ==
    {i \in 1..(Len(node.Content) \div 2) :
        /\ node.Content[2 * i - 1].Kind = "ScalarNode"
        /\ node.Content[2 * i - 1].Value = key}

getMappingValue(node, key) ==
    IF node = Nil \/ node.Kind # "MappingNode" THEN Nil
    ELSE LET ks == KeyPositions(node, key)
         IN  IF ks = {} THEN Nil
             ELSE node.Content[2 * (CHOOSE i \in ks : \A j \in ks : i <= j)]

\* validateMappingField without the append for an absent required field
validateMappingFieldSilent(parent, field, required, errs, file) ==
    [valNode |-> getMappingValue(parent, field), errors |-> errs]

validateMappingField(parent, field, required, errs, file) ==
    LET valNode == getMappingValue(parent, field)
    IN  [valNode |-> valNode,
         errors  |-> IF valNode = Nil /\ required
                     THEN Append(errs, Required(file, field))
                     ELSE errs]

validateAPIVersion(node, errs, file) ==
    IF node = Nil THEN errs
    ELSE IF node.Kind # "ScalarNode"
    THEN Append(errs, Diag(file, node.Line, "apiVersion must be string", ""))
    ELSE IF node.Value # "v1"
    THEN Append(errs, Diag(file, node.Line, "apiVersion has unsupported value '%s'", node.Value))
    ELSE errs

validateKind(node, errs, file) ==
    IF node = Nil THEN errs
    ELSE IF node.Kind # "ScalarNode"
    THEN Append(errs, Diag(file, node.Line, "kind must be string", ""))
    ELSE IF node.Value # "Pod"
    THEN Append(errs, Diag(file, node.Line, "kind has unsupported value '%s'", node.Value))
    ELSE errs

\* the loop of validateMetadata over the pairs i.. of labels
RECURSIVE validateLabels(_, _, _, _)
validateLabels(labelsNode, i, errs, file) ==
    IF 2 * i > Len(labelsNode.Content) THEN errs
    ELSE LET k  == labelsNode.Content[2 * i - 1]
             v  == labelsNode.Content[2 * i]
             e1 == IF k.Kind # "ScalarNode"
                   THEN Append(errs, Diag(file, k.Line, "labels key must be string", ""))
                   ELSE errs
             e2 == IF v.Kind # "ScalarNode"
                   THEN Append(e1, Diag(file, v.Line, "labels value must be string", ""))
                   ELSE e1
         IN  validateLabels(labelsNode, i + 1, e2, file)

validateMetadata(metaNode, errs, file) ==
    IF metaNode = Nil THEN errs
    ELSE IF metaNode.Kind # "MappingNode"
    THEN Append(errs, Diag(file, metaNode.Line, "metadata must be object", ""))
    ELSE
      LET name       == validateMappingField(metaNode, "name", TRUE, errs, file)
          ns         == validateMappingField(metaNode, "namespace", FALSE, name.errors, file)
          labels     == validateMappingField(metaNode, "labels", FALSE, ns.errors, file)
          nameNode   == name.valNode
          nsNode     == ns.valNode
          labelsNode == labels.valNode
          e1 == IF nameNode = Nil THEN labels.errors
                ELSE IF nameNode.Kind # "ScalarNode"
                THEN Append(labels.errors, Diag(file, nameNode.Line, "name must be string", ""))
                ELSE IF nameNode.Value = ""
                THEN Append(labels.errors, Diag(file, nameNode.Line, "name has invalid format ''", ""))
                ELSE labels.errors
          e2 == IF nsNode # Nil /\ nsNode.Kind # "ScalarNode"
                THEN Append(e1, Diag(file, nsNode.Line, "namespace must be string", ""))
                ELSE e1
      IN  IF labelsNode = Nil THEN e2
          ELSE IF labelsNode.Kind # "MappingNode"
          THEN Append(e2, Diag(file, labelsNode.Line, "labels must be object", ""))
          ELSE validateLabels(labelsNode, 1, e2, file)

checkResourceValues(resNode, errs, file) ==
    LET cpuNode == getMappingValue(resNode, "cpu")
        cpu == Atoi(cpuNode.Value)
        e1 == IF cpuNode = Nil THEN errs
              ELSE IF cpuNode.Kind # "ScalarNode"
              THEN Append(errs, Diag(file, cpuNode.Line, "cpu must be int", ""))
              ELSE IF cpuNode.Tag # "!!int"
              THEN Append(errs, Diag(file, cpuNode.Line, "cpu must be int", ""))
              ELSE IF ~cpu.err /\ cpu.val < 0
              THEN Append(errs, Diag(file, cpuNode.Line, "cpu value out of range", ""))
              ELSE errs
        memNode == getMappingValue(resNode, "memory")
    IN  IF memNode = Nil THEN e1
        ELSE IF memNode.Kind # "ScalarNode"
        THEN Append(e1, Diag(file, memNode.Line, "memory must be string", ""))
        ELSE IF ~MatchMemory(memNode.Value)
        THEN Append(e1, Diag(file, memNode.Line, "memory has invalid format '%s'", memNode.Value))
        ELSE e1

validateProbe(probeNode, fieldName, errs, file) ==
    IF probeNode.Kind # "MappingNode"
    THEN Append(errs, Diag(file, probeNode.Line, fieldName \o " must be object", ""))
    ELSE
      LET httpGetNode == getMappingValue(probeNode, "httpGet")
      IN  IF httpGetNode = Nil
          THEN Append(errs, Diag(file, probeNode.Line, "httpGet is required", ""))
          ELSE IF httpGetNode.Kind # "MappingNode"
          THEN Append(errs, Diag(file, httpGetNode.Line, "httpGet must be object", ""))
          ELSE
            LET path     == validateMappingField(httpGetNode, "path", TRUE, errs, file)
                port     == validateMappingField(httpGetNode, "port", TRUE, path.errors, file)
                pathNode == path.valNode
                portNode == port.valNode
                val      == Atoi(portNode.Value)
                e1 == IF pathNode = Nil THEN port.errors
                      ELSE IF pathNode.Kind # "ScalarNode"
                      THEN Append(port.errors, Diag(file, pathNode.Line, "path must be string", ""))
                      ELSE IF ~HasPrefix(pathNode.Value, "/")
                      THEN Append(port.errors,
                                  Diag(file, pathNode.Line, "path has invalid format '%s'", pathNode.Value))
                      ELSE port.errors
            IN  IF portNode = Nil THEN e1
                ELSE IF portNode.Kind # "ScalarNode"
                THEN Append(e1, Diag(file, portNode.Line, "port must be int", ""))
                ELSE IF portNode.Tag # "!!int"
                THEN Append(e1, Diag(file, portNode.Line, "port must be int", ""))
                ELSE IF ~val.err /\ (val.val < PortMin \/ val.val > PortMax)
                THEN Append(e1, Diag(file, portNode.Line, "port value out of range", ""))
                ELSE e1

\* the body of the loop of validatePorts for one entry
validatePortEntry(portEntry, errs, file) ==
    IF portEntry.Kind # "MappingNode"
    THEN Append(errs, Diag(file, portEntry.Line, "ports entry must be object", ""))
    ELSE
      LET cp        == validateMappingField(portEntry, "containerPort", TRUE, errs, file)
          cpNode    == cp.valNode
          protoNode == getMappingValue(portEntry, "protocol")
          val       == Atoi(cpNode.Value)
          e1 == IF cpNode = Nil THEN cp.errors
                ELSE IF cpNode.Kind # "ScalarNode"
                THEN Append(cp.errors, Diag(file, cpNode.Line, "containerPort must be int", ""))
                ELSE IF cpNode.Tag # "!!int"
                THEN Append(cp.errors, Diag(file, cpNode.Line, "containerPort must be int", ""))
                ELSE IF ~val.err /\ (val.val < PortMin \/ val.val > PortMax)
                THEN Append(cp.errors,
                            Diag(file, cpNode.Line, "containerPort value out of range", ""))
                ELSE cp.errors
      IN  IF protoNode = Nil THEN e1
          ELSE IF protoNode.Kind # "ScalarNode"
          THEN Append(e1, Diag(file, protoNode.Line, "protocol must be string", ""))
          ELSE IF protoNode.Value # "TCP" /\ protoNode.Value # "UDP"
          THEN Append(e1, Diag(file, protoNode.Line, "protocol has unsupported value '%s'",
                               protoNode.Value))
          ELSE e1

RECURSIVE validatePortsFrom(_, _, _, _)
validatePortsFrom(portsNode, i, errs, file) ==
    IF i > Len(portsNode.Content) THEN errs
    ELSE validatePortsFrom(portsNode, i + 1,
                           validatePortEntry(portsNode.Content[i], errs, file), file)

\* validatePorts without the return after "ports must be array"
validatePortsNoReturn(portsNode, errs, file) ==
    validatePortsFrom(portsNode, 1,
                      IF portsNode.Kind # "SequenceNode"
                      THEN Append(errs, Diag(file, portsNode.Line, "ports must be array", ""))
                      ELSE errs,
                      file)

validatePorts(portsNode, errs, file) ==
    IF portsNode.Kind # "SequenceNode"
    THEN Append(errs, Diag(file, portsNode.Line, "ports must be array", ""))
    ELSE validatePortsFrom(portsNode, 1, errs, file)

\* the resources part of validateContainer
validateResources(resourcesNode, errs, file) ==
    IF resourcesNode = Nil THEN errs
    ELSE IF resourcesNode.Kind # "MappingNode"
    THEN Append(errs, Diag(file, resourcesNode.Line, "resources must be object", ""))
    ELSE
      LET limitsNode   == getMappingValue(resourcesNode, "limits")
          requestsNode == getMappingValue(resourcesNode, "requests")
          e1 == IF limitsNode = Nil THEN errs
                ELSE IF limitsNode.Kind # "MappingNode"
                THEN Append(errs, Diag(file, limitsNode.Line, "limits must be object", ""))
                ELSE checkResourceValues(limitsNode, errs, file)
      IN  IF requestsNode = Nil THEN e1
          ELSE IF requestsNode.Kind # "MappingNode"
          THEN Append(e1, Diag(file, requestsNode.Line, "requests must be object", ""))
          ELSE checkResourceValues(requestsNode, e1, file)

validateContainer(containerNode, errs, file) ==
    IF containerNode.Kind # "MappingNode"
    THEN Append(errs, Diag(file, containerNode.Line, "container must be object", ""))
    ELSE
      LET name          == validateMappingField(containerNode, "name", TRUE, errs, file)
          image         == validateMappingField(containerNode, "image", TRUE, name.errors, file)
          portsNode     == getMappingValue(containerNode, "ports")
          readinessNode == getMappingValue(containerNode, "readinessProbe")
          livenessNode  == getMappingValue(containerNode, "livenessProbe")
          resources     == validateMappingField(containerNode, "resources", TRUE, image.errors, file)
          nameNode      == name.valNode
          imageNode     == image.valNode
          e1 == IF nameNode = Nil THEN resources.errors
                ELSE IF nameNode.Kind # "ScalarNode"
                THEN Append(resources.errors, Diag(file, nameNode.Line, "name must be string", ""))
                ELSE IF ~MatchSnakeCase(nameNode.Value)
                THEN Append(resources.errors,
                            Diag(file, nameNode.Line, "name has invalid format '%s'", nameNode.Value))
                ELSE resources.errors
          e2 == IF imageNode = Nil THEN e1
                ELSE IF imageNode.Kind # "ScalarNode"
                THEN Append(e1, Diag(file, imageNode.Line, "image must be string", ""))
                ELSE IF ~ImageOk(imageNode.Value)
                THEN Append(e1, Diag(file, imageNode.Line, "image has invalid format '%s'",
                                     imageNode.Value))
                ELSE e1
          e3 == IF portsNode = Nil THEN e2 ELSE validatePorts(portsNode, e2, file)
          e4 == IF readinessNode = Nil THEN e3
                ELSE validateProbe(readinessNode, "readinessProbe", e3, file)
          e5 == IF livenessNode = Nil THEN e4
                ELSE validateProbe(livenessNode, "livenessProbe", e4, file)
      IN  validateResources(resources.valNode, e5, file)

RECURSIVE validateContainersFrom(_, _, _, _)
validateContainersFrom(containersNode, i, errs, file) ==
    IF i > Len(containersNode.Content) THEN errs
    ELSE validateContainersFrom(containersNode, i + 1,
                                validateContainer(containersNode.Content[i], errs, file), file)

\* the spec.os part of validateSpec
validateOS(specNode, errs, file) ==
    LET osNode == getMappingValue(specNode, "os")
    IN  IF osNode = Nil THEN errs
        ELSE
          LET nameNode == getMappingValue(osNode, "name")
              osName == IF osNode.Kind = "ScalarNode" THEN osNode.Value
                        ELSE IF osNode.Kind = "MappingNode"
                                /\ nameNode # Nil /\ nameNode.Kind = "ScalarNode"
                        THEN nameNode.Value
                        ELSE ""
              e1 == IF osNode.Kind = "ScalarNode" THEN errs
                    ELSE IF osNode.Kind = "MappingNode"
                    THEN IF nameNode = Nil
                         THEN Append(errs, Diag(file, osNode.Line, "os.name is required", ""))
                         ELSE IF nameNode.Kind # "ScalarNode"
                         THEN Append(errs, Diag(file, nameNode.Line, "os.name must be string", ""))
                         ELSE errs
                    ELSE Append(errs, Diag(file, osNode.Line, "os must be string or object", ""))
              line == IF osNode.Kind = "MappingNode" /\ nameNode # Nil
                      THEN nameNode.Line ELSE osNode.Line
          IN  IF osName # "" /\ osName # "linux" /\ osName # "windows"
              THEN Append(e1, Diag(file, line, "os has unsupported value '%s'", osName))
              ELSE e1

validateSpec(specNode, errs, file) ==
    IF specNode = Nil THEN errs
    ELSE IF specNode.Kind # "MappingNode"
    THEN Append(errs, Diag(file, specNode.Line, "spec must be object", ""))
    ELSE
      LET e1 == validateOS(specNode, errs, file)
          containersNode == getMappingValue(specNode, "containers")
      IN  IF containersNode = Nil
          THEN Append(e1, Diag(file, NoLine, "containers is required", ""))
          ELSE IF containersNode.Kind # "SequenceNode"
          THEN Append(e1, Diag(file, containersNode.Line, "containers must be array", ""))
          ELSE
            LET e2 == IF Len(containersNode.Content) = 0
                      THEN Append(e1, Diag(file, containersNode.Line,
                                           "containers must not be empty", ""))
                      ELSE e1
            IN  validateContainersFrom(containersNode, 1, e2, file)

validateDocument(doc, file, errs) ==
    IF doc.Kind # "MappingNode"
    THEN Append(errs, Diag(file, doc.Line, "top-level document must be a mapping (object)", ""))
    ELSE
      LET apiVersion == validateMappingField(doc, "apiVersion", TRUE, errs, file)
          kind       == validateMappingField(doc, "kind", TRUE, apiVersion.errors, file)
          meta       == validateMappingField(doc, "metadata", TRUE, kind.errors, file)
          spec       == validateMappingField(doc, "spec", TRUE, meta.errors, file)
          e1 == validateAPIVersion(apiVersion.valNode, spec.errors, file)
          e2 == validateKind(kind.valNode, e1, file)
          e3 == validateMetadata(meta.valNode, e2, file)
      IN  validateSpec(spec.valNode, e3, file)

-----------------------------------------------------------------------------
(* main: the driver.                                                       *)

Usage ==
    /\ prog = "part_001"
    /\ pc = "start"
    /\ Len(args) < 2
    /\ stderr' = <<Diag("", NoLine, "Usage: yamlvalid <path-to-file>", "")>>
    /\ exitCode' = 1
    /\ pc' = "exit"
    /\ UNCHANGED <<prog, args, data, root, filename, errors, idx>>

\* os.ReadFile returns an error
ReadFileError ==
    /\ prog = "part_001"
    /\ pc = "start"
    /\ Len(args) >= 2
    /\ filename' = args[2]
    /\ stderr' = <<Diag(args[2], NoLine, "%v", "read error")>>
    /\ exitCode' = 1
    /\ pc' = "exit"
    /\ UNCHANGED <<prog, args, data, root, errors, idx>>

\* yaml.Unmarshal returns an error
UnmarshalError ==
    /\ prog = "part_001"
    /\ pc = "start"
    /\ Len(args) >= 2
    /\ filename' = args[2]
    /\ stderr' = <<Diag(args[2], NoLine, "%v", "yaml error")>>
    /\ exitCode' = 1
    /\ pc' = "exit"
    /\ UNCHANGED <<prog, args, data, root, errors, idx>>

\* yaml.Unmarshal(data, &root) succeeds: root becomes the document node of
\* the first document of data, and stays the zero node when data has none
Unmarshal ==
    /\ prog = "part_001"
    /\ pc = "start"
    /\ Len(args) >= 2
    /\ filename' = args[2]
    /\ root' = IF Len(data) = 0 THEN ZeroNode ELSE DocumentNode(<<data[1]>>)
    /\ errors' = <<>>
    /\ idx' = 1
    /\ pc' = "validate"
    /\ UNCHANGED <<prog, args, data, stderr, exitCode>>

EmptyContent ==
    /\ prog = "part_001"
    /\ pc = "validate"
    /\ Len(root.Content) = 0
    /\ errors' = Append(errors, Diag(filename, NoLine, "YAML content is empty or invalid", ""))
    /\ pc' = "report"
    /\ UNCHANGED <<prog, args, data, root, filename, idx, stderr, exitCode>>

\* one iteration with validateDocument run by a step that gives it the
\* program's name for the file name
ValidateNextByProgramName ==
    /\ prog = "part_001"
    /\ pc = "validate"
    /\ idx <= Len(root.Content)
    /\ errors' = validateDocument(root.Content[idx], args[1], errors)
    /\ idx' = idx + 1
    /\ pc' = IF idx = Len(root.Content) THEN "report" ELSE "validate"
    /\ UNCHANGED <<prog, args, data, root, filename, stderr, exitCode>>

\* one iteration that empties the document it has validated
ValidateNextConsuming ==
    /\ prog = "part_001"
    /\ pc = "validate"
    /\ idx <= Len(root.Content)
    /\ errors' = validateDocument(root.Content[idx], filename, errors)
    /\ root' = [root EXCEPT !.Content[idx].Content = <<>>]
    /\ idx' = idx + 1
    /\ pc' = IF idx = Len(root.Content) THEN "report" ELSE "validate"
    /\ UNCHANGED <<prog, args, data, filename, stderr, exitCode>>

\* one iteration of "for _, doc := range root.Content"
ValidateNext ==
    /\ prog = "part_001"
    /\ pc = "validate"
    /\ idx <= Len(root.Content)
    /\ errors' = validateDocument(root.Content[idx], filename, errors)
    /\ idx' = idx + 1
    /\ pc' = IF idx = Len(root.Content) THEN "report" ELSE "validate"
    /\ UNCHANGED <<prog, args, data, root, filename, stderr, exitCode>>

ExitFailure ==
    /\ prog = "part_001"
    /\ pc = "report"
    /\ Len(errors) > 0
    /\ stderr' = errors
    /\ exitCode' = 1
    /\ pc' = "exit"
    /\ UNCHANGED <<prog, args, data, root, filename, errors, idx>>

ExitSuccess ==
    /\ prog = "part_001"
    /\ pc = "report"
    /\ Len(errors) = 0
    /\ exitCode' = 0
    /\ pc' = "exit"
    /\ UNCHANGED <<prog, args, data, root, filename, errors, idx, stderr>>

-----------------------------------------------------------------------------
(* src/main.go: the monolithic variant.  Its rules are inline in main and  *)
(* append with the closure addError; here each part of main is an operator *)
(* that takes the errors slice and returns it, extended.                   *)

\* addError: every diagnostic of main.go has the format "%s:%d %s"
maingo_addError(errs, file, line, msg) == Append(errs, Diag(file, line, msg, ""))

\* the key and the value of the first pair whose key has the text key;
\* both Nil when there is none or mapNode is not a mapping
findMapKey(mapNode, key) ==
    IF mapNode = Nil \/ mapNode.Kind # "MappingNode" THEN [k |-> Nil, v |-> Nil]
    ELSE LET ks == {i \in 1..(Len(mapNode.Content) \div 2) :
                       mapNode.Content[2 * i - 1].Value = key}
         IN  IF ks = {} THEN [k |-> Nil, v |-> Nil]
             ELSE LET i == CHOOSE i \in ks : \A j \in ks : i <= j
                  IN  [k |-> mapNode.Content[2 * i - 1], v |-> mapNode.Content[2 * i]]

containsColonAfterPrefix(s, prefix) ==
    IF Len(s) <= Len(prefix) THEN FALSE
    ELSE LET rest   == SubSeq(s, Len(prefix) + 1, Len(s))
             colons == {i \in 1..Len(rest) : CharAt(rest, i) = ":"}
             \* colonIndex + 1, and 0 for colonIndex = -1
             first  == IF colons = {} THEN 0 ELSE CHOOSE i \in colons : \A j \in colons : i <= j
         IN  ~(first <= 1 \/ first = Len(rest))

\* the image condition of main: TRUE when the image is reported
maingo_ImageBad(img) ==
    \/ Len(img) < Len(ImagePrefix)
    \/ SubSeq(img, 1, Len(ImagePrefix)) # ImagePrefix
    \/ ~containsColonAfterPrefix(img, ImagePrefix)

\* regexp `^[0-9]+(?:Ki|Mi|Gi|Ti|Pi|Ei|K|M|G|T|P|E)$`
maingo_MatchMemory(s) ==
    \/ /\ Len(s) >= 3
       /\ SubSeq(s, Len(s) - 1, Len(s)) \in {"Ki", "Mi", "Gi", "Ti", "Pi", "Ei"}
       /\ AllDigits(SubSeq(s, 1, Len(s) - 2))
    \/ /\ Len(s) >= 2
       /\ CharAt(s, Len(s)) \in {"K", "M", "G", "T", "P", "E"}
       /\ AllDigits(SubSeq(s, 1, Len(s) - 1))

\* "metadata and metadata.name" of main
maingo_metadata(rootMap, errs, file) ==
    LET mNode == findMapKey(rootMap, "metadata").v
        nameNode == findMapKey(mNode, "name").v
    IN  IF mNode = Nil THEN maingo_addError(errs, file, 1, "metadata.name is required")
        ELSE IF mNode.Kind # "MappingNode"
        THEN maingo_addError(errs, file, mNode.Line, "metadata.name is required")
        ELSE IF nameNode = Nil \/ nameNode.Value = ""
        THEN maingo_addError(errs, file, mNode.Line, "metadata.name is required")
        ELSE errs

\* the containerPort and protocol checks of main for one port mapping
maingo_portItem(portItem, errs, file) ==
    IF portItem.Kind # "MappingNode"
    THEN maingo_addError(errs, file, portItem.Line,
                         "port must be a mapping (with containerPort and protocol)")
    ELSE
      LET cp       == findMapKey(portItem, "containerPort")
          cpVal    == cp.v
          portNum  == Atoi(cpVal.Value)
          protoVal == findMapKey(portItem, "protocol").v
          e1 == IF cpVal = Nil
                THEN maingo_addError(errs, file,
                                     IF cp.k # Nil THEN cp.k.Line ELSE portItem.Line,
                                     "containerPort is required")
                ELSE
                  LET e0 == IF cpVal.Tag # "!!int" /\ portNum.err
                            THEN maingo_addError(errs, file, cpVal.Line,
                                     "containerPort must be an integer between 1 and 65535")
                            ELSE errs
                  IN  IF ~portNum.err /\ (portNum.val < 1 \/ portNum.val > 65535)
                      THEN maingo_addError(e0, file, cpVal.Line,
                                           "containerPort must be between 1 and 65535")
                      ELSE e0
      IN  IF protoVal # Nil /\ protoVal.Value # "TCP" /\ protoVal.Value # "UDP"
          THEN maingo_addError(e1, file, protoVal.Line, "protocol must be either TCP or UDP")
          ELSE e1

RECURSIVE maingo_portsFrom(_, _, _, _)
maingo_portsFrom(portsVal, i, errs, file) ==
    IF i > Len(portsVal.Content) THEN errs
    ELSE maingo_portsFrom(portsVal, i + 1,
                          maingo_portItem(portsVal.Content[i], errs, file), file)

maingo_validateProbe(probeName, probeNode, errs, file) ==
    IF probeNode.Kind # "MappingNode"
    THEN maingo_addError(errs, file, probeNode.Line, probeName \o " must be a mapping")
    ELSE
      LET httpGetNode == findMapKey(probeNode, "httpGet").v
      IN  IF httpGetNode = Nil THEN errs
          ELSE IF httpGetNode.Kind # "MappingNode"
          THEN maingo_addError(errs, file, httpGetNode.Line,
                               probeName \o ".httpGet must be a mapping")
          ELSE
            LET path    == findMapKey(httpGetNode, "path")
                pathVal == path.v
                port    == findMapKey(httpGetNode, "port")
                portVal == port.v
                pNum    == Atoi(portVal.Value)
                e1 == IF pathVal = Nil \/ pathVal.Value = ""
                      THEN maingo_addError(errs, file,
                               IF path.k # Nil THEN path.k.Line ELSE httpGetNode.Line,
                               probeName \o ".httpGet.path is required")
                      ELSE IF Len(pathVal.Value) = 0 \/ CharAt(pathVal.Value, 1) # "/"
                      THEN maingo_addError(errs, file, pathVal.Line,
                               probeName \o ".httpGet.path must start with '/'")
                      ELSE errs
            IN  IF portVal = Nil
                THEN maingo_addError(e1, file,
                         IF port.k # Nil THEN port.k.Line ELSE httpGetNode.Line,
                         probeName \o ".httpGet.port is required")
                ELSE
                  LET e2 == IF portVal.Tag # "!!int" /\ pNum.err
                            THEN maingo_addError(e1, file, portVal.Line,
                                     probeName
                                     \o ".httpGet.port must be an integer between 1 and 65535")
                            ELSE e1
                  IN  IF ~pNum.err /\ (pNum.val < 1 \/ pNum.val > 65535)
                      THEN maingo_addError(e2, file, portVal.Line,
                               probeName \o ".httpGet.port must be between 1 and 65535")
                      ELSE e2

\* the body of the loop of checkResourceValues for resType
maingo_resType(resourcesNode, resType, errs, file) ==
    LET resNode == findMapKey(resourcesNode, resType).v
    IN  IF resNode = Nil
        THEN maingo_addError(errs, file, resourcesNode.Line,
                             "resources." \o resType \o " is required")
        ELSE IF resNode.Kind # "MappingNode"
        THEN maingo_addError(errs, file, resNode.Line,
                             "resources." \o resType \o " must be a mapping")
        ELSE
          LET cpu    == findMapKey(resNode, "cpu")
              cpuVal == cpu.v
              i      == Atoi(cpuVal.Value)
              mem    == findMapKey(resNode, "memory")
              memVal == mem.v
              e1 == IF cpuVal = Nil \/ cpuVal.Value = ""
                    THEN maingo_addError(errs, file,
                             IF cpu.k # Nil THEN cpu.k.Line ELSE resNode.Line,
                             "resources." \o resType \o ".cpu is required")
                    ELSE IF i.err \/ i.val < 0
                    THEN maingo_addError(errs, file, cpuVal.Line,
                             "resources." \o resType \o ".cpu must be a non-negative integer")
                    ELSE errs
          IN  IF memVal = Nil \/ memVal.Value = ""
              THEN maingo_addError(e1, file,
                       IF mem.k # Nil THEN mem.k.Line ELSE resNode.Line,
                       "resources." \o resType \o ".memory is required")
              ELSE IF ~maingo_MatchMemory(memVal.Value)
              THEN maingo_addError(e1, file, memVal.Line,
                       "resources." \o resType
                       \o ".memory must be in format <number><unit> (e.g., 123Mi or 1Gi)")
              ELSE e1

maingo_checkResourceValues(resourcesNode, errs, file) ==
    IF resourcesNode.Kind # "MappingNode"
    THEN maingo_addError(errs, file, resourcesNode.Line, "resources must be a mapping")
    ELSE maingo_resType(resourcesNode, "requests",
                        maingo_resType(resourcesNode, "limits", errs, file), file)

\* the body of the loop of main over the containers
maingo_container(container, errs, file) ==
    IF container.Kind # "MappingNode"
    THEN maingo_addError(errs, file, container.Line, "container must be a mapping object")
    ELSE
      LET name      == findMapKey(container, "name")
          image     == findMapKey(container, "image")
          portsVal  == findMapKey(container, "ports").v
          readiness == findMapKey(container, "readinessProbe").v
          liveness  == findMapKey(container, "livenessProbe").v
          resNode   == findMapKey(container, "resources").v
          e1 == IF name.v = Nil \/ name.v.Value = ""
                THEN maingo_addError(errs, file,
                         IF name.k # Nil THEN name.k.Line ELSE container.Line,
                         "container name is required")
                ELSE IF ~MatchSnakeCase(name.v.Value)
                THEN maingo_addError(errs, file, name.v.Line,
                         "container name must be snake_case (lowercase with underscores)")
                ELSE errs
          e2 == IF image.v = Nil \/ image.v.Value = ""
                THEN maingo_addError(e1, file,
                         IF image.k # Nil THEN image.k.Line ELSE container.Line,
                         "image is required")
                ELSE IF maingo_ImageBad(image.v.Value)
                THEN maingo_addError(e1, file, image.v.Line,
                         "image must start with 'registry.bigbrother.io/' and contain a tag (use ':')")
                ELSE e1
          e3 == IF portsVal = Nil THEN e2
                ELSE IF portsVal.Kind # "SequenceNode"
                THEN maingo_addError(e2, file, portsVal.Line, "ports must be a list")
                ELSE maingo_portsFrom(portsVal, 1, e2, file)
          e4 == IF readiness = Nil THEN e3
                ELSE maingo_validateProbe("readinessProbe", readiness, e3, file)
          e5 == IF liveness = Nil THEN e4
                ELSE maingo_validateProbe("livenessProbe", liveness, e4, file)
      IN  IF resNode = Nil THEN e5 ELSE maingo_checkResourceValues(resNode, e5, file)

RECURSIVE maingo_containersFrom(_, _, _, _)
maingo_containersFrom(containersNode, i, errs, file) ==
    IF i > Len(containersNode.Content) THEN errs
    ELSE maingo_containersFrom(containersNode, i + 1,
                               maingo_container(containersNode.Content[i], errs, file), file)

\* "spec" of main
maingo_spec(rootMap, errs, file) ==
    LET sNode == findMapKey(rootMap, "spec").v
    IN  IF sNode = Nil THEN maingo_addError(errs, file, 1, "spec.containers is required")
        ELSE IF sNode.Kind # "MappingNode"
        THEN maingo_addError(errs, file, sNode.Line, "spec.containers is required")
        ELSE
          LET osVal == findMapKey(sNode, "os").v
              cNode == findMapKey(sNode, "containers").v
              e1 == IF osVal # Nil /\ osVal.Value # "linux" /\ osVal.Value # "windows"
                    THEN maingo_addError(errs, file, osVal.Line,
                                         "spec.os must be 'linux' or 'windows'")
                    ELSE errs
          IN  IF cNode = Nil
              THEN maingo_addError(e1, file, sNode.Line, "spec.containers is required")
              ELSE IF cNode.Kind # "SequenceNode"
              THEN maingo_addError(e1, file, cNode.Line,
                                   "spec.containers must be a sequence (list)")
              ELSE IF Len(cNode.Content) = 0
              THEN maingo_addError(e1, file, cNode.Line,
                                   "spec.containers must have at least one container")
              ELSE maingo_containersFrom(cNode, 1, e1, file)

\* the rules of main, from "var errors []string" to the report
maingo_rules(rootMap, file) ==
    LET e1 == IF findMapKey(rootMap, "apiVersion").v = Nil
              THEN maingo_addError(<<>>, file, 1, "apiVersion is required")
              ELSE <<>>
        e2 == IF findMapKey(rootMap, "kind").v = Nil
              THEN maingo_addError(e1, file, 1, "kind is required")
              ELSE e1
    IN  maingo_spec(rootMap, maingo_metadata(rootMap, e2, file), file)

\* the rootMap of main: the first document, or the root node itself
maingo_rootMap ==
    IF root.Kind = "DocumentNode" /\ Len(root.Content) > 0 THEN root.Content[1] ELSE root

maingo_Usage ==
    /\ prog = "main.go"
    /\ pc = "start"
    /\ Len(args) # 2
    /\ stderr' = <<Diag("", NoLine, "Usage: yamlvalid <path/to/file.yaml>", "")>>
    /\ exitCode' = 1
    /\ pc' = "exit"
    /\ UNCHANGED <<prog, args, data, root, filename, errors, idx>>

\* os.ReadFile returns an error
maingo_ReadFileError ==
    /\ prog = "main.go"
    /\ pc = "start"
    /\ Len(args) = 2
    /\ filename' = args[2]
    /\ stderr' = <<Diag(args[2], 0, "%v", "read error")>>
    /\ exitCode' = 1
    /\ pc' = "exit"
    /\ UNCHANGED <<prog, args, data, root, errors, idx>>

\* yaml.Unmarshal returns an error, with or without "line %d:" in its text
maingo_UnmarshalError ==
    /\ prog = "main.go"
    /\ pc = "start"
    /\ Len(args) = 2
    /\ filename' = args[2]
    /\ \E lineNum \in {0, 1} : stderr' = <<Diag(args[2], lineNum, "%s", "yaml error")>>
    /\ exitCode' = 1
    /\ pc' = "exit"
    /\ UNCHANGED <<prog, args, data, root, errors, idx>>

maingo_Unmarshal ==
    /\ prog = "main.go"
    /\ pc = "start"
    /\ Len(args) = 2
    /\ filename' = args[2]
    /\ root' = IF Len(data) = 0 THEN ZeroNode ELSE DocumentNode(<<data[1]>>)
    /\ pc' = "validate"
    /\ UNCHANGED <<prog, args, data, errors, idx, stderr, exitCode>>

maingo_NotMapping ==
    /\ prog = "main.go"
    /\ pc = "validate"
    /\ maingo_rootMap.Kind # "MappingNode"
    /\ stderr' = <<Diag(filename, 1, "YAML content is not a mapping", "")>>
    /\ exitCode' = 1
    /\ pc' = "exit"
    /\ UNCHANGED <<prog, args, data, root, filename, errors, idx>>

maingo_Validate ==
    /\ prog = "main.go"
    /\ pc = "validate"
    /\ maingo_rootMap.Kind = "MappingNode"
    /\ errors' = maingo_rules(maingo_rootMap, filename)
    /\ pc' = "report"
    /\ UNCHANGED <<prog, args, data, root, filename, idx, stderr, exitCode>>

\* the report of main.go with the exit status of a clean run
maingo_ExitFailureStatusZero ==
    /\ prog = "main.go"
    /\ pc = "report"
    /\ Len(errors) > 0
    /\ stderr' = errors
    /\ exitCode' = 0
    /\ pc' = "exit"
    /\ UNCHANGED <<prog, args, data, root, filename, errors, idx>>

maingo_ExitFailure ==
    /\ prog = "main.go"
    /\ pc = "report"
    /\ Len(errors) > 0
    /\ stderr' = errors
    /\ exitCode' = 1
    /\ pc' = "exit"
    /\ UNCHANGED <<prog, args, data, root, filename, errors, idx>>

maingo_ExitSuccess ==
    /\ prog = "main.go"
    /\ pc = "report"
    /\ Len(errors) = 0
    /\ exitCode' = 0
    /\ pc' = "exit"
    /\ UNCHANGED <<prog, args, data, root, filename, errors, idx, stderr>>

-----------------------------------------------------------------------------
(* src/unnamed/part_000: the minimal variant.  Its loops walk every pair   *)
(* of a mapping, so each loop is an operator over the pairs i.. .          *)

\* the loop of validateProbe over the pairs j.. of httpGet
RECURSIVE part000_portFrom(_, _, _, _)
part000_portFrom(valNode, j, errs, file) ==
    IF 2 * j > Len(valNode.Content) THEN errs
    ELSE LET k    == valNode.Content[2 * j - 1]
             v    == valNode.Content[2 * j]
             port == Atoi(v.Value)
             e1 == IF /\ k.Value = "port"
                      /\ v.Kind = "ScalarNode"
                      /\ v.Value # ""
                      /\ ~port.err
                      /\ (port.val < 1 \/ port.val > 65535)
                   THEN Append(errs, Diag(file, v.Line, "port value out of range", ""))
                   ELSE errs
         IN  part000_portFrom(valNode, j + 1, e1, file)

\* the loop of validateProbe over the pairs i.. of the probe
RECURSIVE part000_httpGetFrom(_, _, _, _)
part000_httpGetFrom(probeNode, i, errs, file) ==
    IF 2 * i > Len(probeNode.Content) THEN errs
    ELSE LET keyNode == probeNode.Content[2 * i - 1]
             valNode == probeNode.Content[2 * i]
             e1 == IF keyNode.Value = "httpGet" /\ valNode.Kind = "MappingNode"
                   THEN part000_portFrom(valNode, 1, errs, file)
                   ELSE errs
         IN  part000_httpGetFrom(probeNode, i + 1, e1, file)

part000_validateProbe(file, errs, probeNode) ==
    IF probeNode = Nil \/ probeNode.Kind # "MappingNode" THEN errs
    ELSE part000_httpGetFrom(probeNode, 1, errs, file)

\* the loop of checkResourceValues over the pairs j.. of requests
RECURSIVE part000_cpuFrom(_, _, _, _)
part000_cpuFrom(valNode, j, errs, file) ==
    IF 2 * j > Len(valNode.Content) THEN errs
    ELSE LET reqKey == valNode.Content[2 * j - 1]
             reqVal == valNode.Content[2 * j]
             e1 == IF /\ reqKey.Value = "cpu"
                      /\ reqVal.Kind = "ScalarNode"
                      /\ reqVal.Tag = "!!str"
                   THEN Append(errs, Diag(file, reqVal.Line, "cpu must be int", ""))
                   ELSE errs
         IN  part000_cpuFrom(valNode, j + 1, e1, file)

\* the loop of checkResourceValues over the pairs i.. of resources
RECURSIVE part000_requestsFrom(_, _, _, _)
part000_requestsFrom(resourcesNode, i, errs, file) ==
    IF 2 * i > Len(resourcesNode.Content) THEN errs
    ELSE LET keyNode == resourcesNode.Content[2 * i - 1]
             valNode == resourcesNode.Content[2 * i]
             e1 == IF keyNode.Value = "requests" /\ valNode.Kind = "MappingNode"
                   THEN part000_cpuFrom(valNode, 1, errs, file)
                   ELSE errs
         IN  part000_requestsFrom(resourcesNode, i + 1, e1, file)

part000_checkResourceValues(file, errs, resourcesNode) ==
    IF resourcesNode = Nil \/ resourcesNode.Kind # "MappingNode" THEN errs
    ELSE part000_requestsFrom(resourcesNode, 1, errs, file)

\* the first loop of main over the pairs i.. of spec: spec.os
RECURSIVE part000_osFrom(_, _, _, _)
part000_osFrom(specNode, i, errs, file) ==
    IF 2 * i > Len(specNode.Content) THEN errs
    ELSE LET keyNode == specNode.Content[2 * i - 1]
             valNode == specNode.Content[2 * i]
             e1 == IF /\ keyNode.Value = "os"
                      /\ valNode.Kind = "ScalarNode"
                      /\ valNode.Value # "linux"
                      /\ valNode.Value # "windows"
                   THEN Append(errs, Diag(file, valNode.Line, "os has unsupported value '%s'",
                                          valNode.Value))
                   ELSE errs
         IN  part000_osFrom(specNode, i + 1, e1, file)

\* the loop of main over the pairs j.. of a container
RECURSIVE part000_containerFrom(_, _, _, _)
part000_containerFrom(containerNode, j, errs, file) ==
    IF 2 * j > Len(containerNode.Content) THEN errs
    ELSE LET cKey == containerNode.Content[2 * j - 1]
             cVal == containerNode.Content[2 * j]
             e1 == IF cKey.Value = "readinessProbe"
                   THEN part000_validateProbe(file, errs, cVal)
                   ELSE errs
             e2 == IF cKey.Value = "resources"
                   THEN part000_checkResourceValues(file, e1, cVal)
                   ELSE e1
         IN  part000_containerFrom(containerNode, j + 1, e2, file)

\* the loop of main over the containers n..
RECURSIVE part000_containersFrom(_, _, _, _)
part000_containersFrom(valNode, n, errs, file) ==
    IF n > Len(valNode.Content) THEN errs
    ELSE LET containerNode == valNode.Content[n]
             e1 == IF containerNode.Kind # "MappingNode" THEN errs
                   ELSE part000_containerFrom(containerNode, 1, errs, file)
         IN  part000_containersFrom(valNode, n + 1, e1, file)

\* the second loop of main over the pairs i.. of spec: spec.containers
RECURSIVE part000_specFrom(_, _, _, _)
part000_specFrom(specNode, i, errs, file) ==
    IF 2 * i > Len(specNode.Content) THEN errs
    ELSE LET keyNode == specNode.Content[2 * i - 1]
             valNode == specNode.Content[2 * i]
             e1 == IF keyNode.Value = "containers" /\ valNode.Kind = "SequenceNode"
                   THEN part000_containersFrom(valNode, 1, errs, file)
                   ELSE errs
         IN  part000_specFrom(specNode, i + 1, e1, file)

\* the rules of main, from "var errs []string" to the report
part000_rules(doc, file) ==
    LET ks == {i \in 1..(Len(doc.Content) \div 2) : doc.Content[2 * i - 1].Value = "spec"}
        specNode == IF ks = {} THEN Nil
                    ELSE doc.Content[2 * (CHOOSE i \in ks : \A j \in ks : i <= j)]
    IN  IF specNode # Nil /\ specNode.Kind = "MappingNode"
        THEN part000_specFrom(specNode, 1, part000_osFrom(specNode, 1, <<>>, file), file)
        ELSE <<>>

\* the doc of main: the first document, or the root node itself
part000_doc ==
    IF root.Kind = "DocumentNode" /\ Len(root.Content) > 0 THEN root.Content[1] ELSE root

part000_Usage ==
    /\ prog = "part_000"
    /\ pc = "start"
    /\ Len(args) < 2
    /\ stderr' = <<Diag("", NoLine, "Usage: yamlvalidator <file.yaml>", "")>>
    /\ exitCode' = 1
    /\ pc' = "exit"
    /\ UNCHANGED <<prog, args, data, root, filename, errors, idx>>

\* os.ReadFile returns an error
part000_ReadFileError ==
    /\ prog = "part_000"
    /\ pc = "start"
    /\ Len(args) >= 2
    /\ filename' = args[2]
    /\ stderr' = <<Diag("", NoLine, "Failed to read file: %v", "read error")>>
    /\ exitCode' = 1
    /\ pc' = "exit"
    /\ UNCHANGED <<prog, args, data, root, errors, idx>>

\* yaml.Unmarshal returns an error
part000_UnmarshalError ==
    /\ prog = "part_000"
    /\ pc = "start"
    /\ Len(args) >= 2
    /\ filename' = args[2]
    /\ stderr' = <<Diag("", NoLine, "YAML parse error: %v", "yaml error")>>
    /\ exitCode' = 1
    /\ pc' = "exit"
    /\ UNCHANGED <<prog, args, data, root, errors, idx>>

part000_Unmarshal ==
    /\ prog = "part_000"
    /\ pc = "start"
    /\ Len(args) >= 2
    /\ filename' = args[2]
    /\ root' = IF Len(data) = 0 THEN ZeroNode ELSE DocumentNode(<<data[1]>>)
    /\ pc' = "validate"
    /\ UNCHANGED <<prog, args, data, errors, idx, stderr, exitCode>>

part000_NotMapping ==
    /\ prog = "part_000"
    /\ pc = "validate"
    /\ part000_doc.Kind # "MappingNode"
    /\ stderr' = <<Diag(filename, NoLine, "root YAML node is not a mapping", "")>>
    /\ exitCode' = 1
    /\ pc' = "exit"
    /\ UNCHANGED <<prog, args, data, root, filename, errors, idx>>

part000_Validate ==
    /\ prog = "part_000"
    /\ pc = "validate"
    /\ part000_doc.Kind = "MappingNode"
    /\ errors' = part000_rules(part000_doc, filename)
    /\ pc' = "report"
    /\ UNCHANGED <<prog, args, data, root, filename, idx, stderr, exitCode>>

part000_ExitFailure ==
    /\ prog = "part_000"
    /\ pc = "report"
    /\ Len(errors) > 0
    /\ stderr' = errors
    /\ exitCode' = 1
    /\ pc' = "exit"
    /\ UNCHANGED <<prog, args, data, root, filename, errors, idx>>

part000_ExitSuccess ==
    /\ prog = "part_000"
    /\ pc = "report"
    /\ Len(errors) = 0
    /\ exitCode' = 0
    /\ pc' = "exit"
    /\ UNCHANGED <<prog, args, data, root, filename, errors, idx, stderr>>

-----------------------------------------------------------------------------
(* One step of the variant that is run.                                    *)

Next ==
    \/ Usage
    \/ ReadFileError
    \/ UnmarshalError
    \/ Unmarshal
    \/ EmptyContent
    \/ ValidateNext
    \/ ExitFailure
    \/ ExitSuccess
    \/ maingo_Usage
    \/ maingo_ReadFileError
    \/ maingo_UnmarshalError
    \/ maingo_Unmarshal
    \/ maingo_NotMapping
    \/ maingo_Validate
    \/ maingo_ExitFailure
    \/ maingo_ExitSuccess
    \/ part000_Usage
    \/ part000_ReadFileError
    \/ part000_UnmarshalError
    \/ part000_Unmarshal
    \/ part000_NotMapping
    \/ part000_Validate
    \/ part000_ExitFailure
    \/ part000_ExitSuccess

-----------------------------------------------------------------------------
(* Input documents.  A manifest is laid out on fixed lines:                *)
(*    1 apiVersion   2 kind   3 metadata: (4 name, 5 namespace, 6 labels:  *)
(*    7 app)   8 spec: (9 os, 11 containers:)                              *)
(* and container k starts on line b = CB(k):                               *)
(*    b name, b+1 image, b+2 ports: (b+3 containerPort, b+4 protocol,      *)
(*    b+5 containerPort, b+6 protocol), b+7 readinessProbe: (b+8 httpGet:  *)
(*    b+9 path, b+10 port), b+11 livenessProbe: (b+12 httpGet: b+13 path,  *)
(*    b+14 port), b+15 resources: (b+16 limits: b+17 cpu, b+18 memory,     *)
(*    b+19 requests: b+20 cpu, b+21 memory).                               *)
(* A document is built from a function v of slot names to nodes: Nil       *)
(* leaves the key out, Auto builds a mapping or sequence from its parts.   *)

Auto == [Kind |-> "Auto", Tag |-> "", Value |-> "", Line |-> 0, Content |-> <<>>]

RECURSIVE MapContent(_)
MapContent(entries) ==
    IF entries = <<>> THEN <<>>
    ELSE LET e == Head(entries)
         IN  (IF e[3] = Nil THEN <<>> ELSE <<StrNode(e[1], e[2]), e[3]>>)
             \o MapContent(Tail(entries))

RECURSIVE SeqContent(_)
SeqContent(nodes) ==
    IF nodes = <<>> THEN <<>>
    ELSE (IF Head(nodes) = Nil THEN <<>> ELSE <<Head(nodes)>>) \o SeqContent(Tail(nodes))

OrBuilt(given, built) == IF given = Auto THEN built ELSE given

CB(k) == 12 + 25 * (k - 1)

CN(k) == IF k = 1 THEN "c1" ELSE "c2"

ContainerSlots(c) ==
    {c, c \o ".name", c \o ".image", c \o ".ports",
     c \o ".p1", c \o ".p1.containerPort", c \o ".p1.protocol",
     c \o ".p2", c \o ".p2.containerPort", c \o ".p2.protocol",
     c \o ".rp", c \o ".rp.httpGet", c \o ".rp.path", c \o ".rp.port",
     c \o ".lp", c \o ".lp.httpGet", c \o ".lp.path", c \o ".lp.port",
     c \o ".resources", c \o ".limits", c \o ".limits.cpu", c \o ".limits.memory",
     c \o ".requests", c \o ".requests.cpu", c \o ".requests.memory"}

Slots ==
    {"apiVersion", "kind", "metadata", "metadata.name", "metadata.namespace",
     "metadata.labels", "spec", "os", "containers"}
    \cup UNION {ContainerSlots(CN(k)) : k \in {1, 2}}

BuildPort(v, p, b) ==
    OrBuilt(v[p], Mapping(b, MapContent(<<
        <<"containerPort", b, v[p \o ".containerPort"]>>,
        <<"protocol", b + 1, v[p \o ".protocol"]>> >>)))

BuildProbe(v, p, b) ==
    OrBuilt(v[p], Mapping(b + 1, MapContent(<<
        <<"httpGet", b + 1,
          OrBuilt(v[p \o ".httpGet"], Mapping(b + 2, MapContent(<<
              <<"path", b + 2, v[p \o ".path"]>>,
              <<"port", b + 3, v[p \o ".port"]>> >>)))>> >>)))

BuildValues(v, p, b) ==
    OrBuilt(v[p], Mapping(b + 1, MapContent(<<
        <<"cpu", b + 1, v[p \o ".cpu"]>>,
        <<"memory", b + 2, v[p \o ".memory"]>> >>)))

BuildContainer(v, k) ==
    LET c == CN(k)
        b == CB(k)
    IN  OrBuilt(v[c], Mapping(b, MapContent(<<
            <<"name", b, v[c \o ".name"]>>,
            <<"image", b + 1, v[c \o ".image"]>>,
            <<"ports", b + 2,
              OrBuilt(v[c \o ".ports"],
                      Sequence(b + 3, SeqContent(<<BuildPort(v, c \o ".p1", b + 3),
                                                   BuildPort(v, c \o ".p2", b + 5)>>)))>>,
            <<"readinessProbe", b + 7, BuildProbe(v, c \o ".rp", b + 7)>>,
            <<"livenessProbe", b + 11, BuildProbe(v, c \o ".lp", b + 11)>>,
            <<"resources", b + 15,
              OrBuilt(v[c \o ".resources"], Mapping(b + 16, MapContent(<<
                  <<"limits", b + 16, BuildValues(v, c \o ".limits", b + 16)>>,
                  <<"requests", b + 19, BuildValues(v, c \o ".requests", b + 19)>> >>)))>> >>)))

Build(v) ==
    Mapping(1, MapContent(<<
        <<"apiVersion", 1, v["apiVersion"]>>,
        <<"kind", 2, v["kind"]>>,
        <<"metadata", 3,
          OrBuilt(v["metadata"], Mapping(4, MapContent(<<
              <<"name", 4, v["metadata.name"]>>,
              <<"namespace", 5, v["metadata.namespace"]>>,
              <<"labels", 6, v["metadata.labels"]>> >>)))>>,
        <<"spec", 8,
          OrBuilt(v["spec"], Mapping(9, MapContent(<<
              <<"os", 9, v["os"]>>,
              <<"containers", 11,
                OrBuilt(v["containers"],
                        Sequence(12, SeqContent(<<BuildContainer(v, 1),
                                                     BuildContainer(v, 2)>>)))>> >>)))>> >>))

\* the slots of container k of a manifest in which everything is valid:
\* container 1 has every optional part, container 2 the required ones only
BaseContainer(k) ==
    LET c == CN(k)
        b == CB(k)
        opt(n) == IF k = 1 THEN n ELSE Nil
    IN  (c :> Auto)
        @@ (c \o ".name" :> StrNode(IF k = 1 THEN "web_app" ELSE "side_car", b))
        @@ (c \o ".image" :> StrNode("registry.bigbrother.io/app:1", b + 1))
        @@ (c \o ".ports" :> opt(Auto))
        @@ (c \o ".p1" :> Auto)
        @@ (c \o ".p1.containerPort" :> IntNode("80", b + 3))
        @@ (c \o ".p1.protocol" :> StrNode("TCP", b + 4))
        @@ (c \o ".p2" :> Auto)
        @@ (c \o ".p2.containerPort" :> IntNode("8080", b + 5))
        @@ (c \o ".p2.protocol" :> Nil)
        @@ (c \o ".rp" :> opt(Auto))
        @@ (c \o ".rp.httpGet" :> Auto)
        @@ (c \o ".rp.path" :> StrNode("/ready", b + 9))
        @@ (c \o ".rp.port" :> IntNode("8080", b + 10))
        @@ (c \o ".lp" :> opt(Auto))
        @@ (c \o ".lp.httpGet" :> Auto)
        @@ (c \o ".lp.path" :> StrNode("/", b + 13))
        @@ (c \o ".lp.port" :> IntNode("80", b + 14))
        @@ (c \o ".resources" :> Auto)
        @@ (c \o ".limits" :> Auto)
        @@ (c \o ".limits.cpu" :> IntNode("2", b + 17))
        @@ (c \o ".limits.memory" :> StrNode("512Mi", b + 18))
        @@ (c \o ".requests" :> opt(Auto))
        @@ (c \o ".requests.cpu" :> IntNode("1", b + 20))
        @@ (c \o ".requests.memory" :> StrNode("1Gi", b + 21))

Base ==
    ("apiVersion" :> StrNode("v1", 1))
    @@ ("kind" :> StrNode("Pod", 2))
    @@ ("metadata" :> Auto)
    @@ ("metadata.name" :> StrNode("web", 4))
    @@ ("metadata.namespace" :> StrNode("prod", 5))
    @@ ("metadata.labels" :> Mapping(7, <<StrNode("app", 7), StrNode("web", 7)>>))
    @@ ("spec" :> Auto)
    @@ ("os" :> StrNode("linux", 9))
    @@ ("containers" :> Auto)
    @@ BaseContainer(1)
    @@ BaseContainer(2)

\* Base with the slots of o replaced
Ov(o) == [s \in Slots |-> IF s \in DOMAIN o THEN o[s] ELSE Base[s]]

ValidManifest == Build(Base)

NoMetadataManifest == Build(Ov("metadata" :> Nil))

BadVersionManifest == Build(Ov("apiVersion" :> StrNode("v2", 1)))

\* the valid manifest with requests in its second container too: main.go
\* requires limits and requests of every resources mapping
CompleteManifest == Build(Ov("c2.requests" :> Auto))

-----------------------------------------------------------------------------
(* The files main is run on.                                               *)

MaxDocs == 2

\* the three mains of the repository, by their files
Programs == {"part_001", "main.go", "part_000"}

NoExit == -1

InitWith(files) ==
    /\ prog \in Programs
    /\ \/ args = <<"yamlvalid">> /\ data = <<>>
       \/ args = <<"yamlvalid", "pod.yaml", "more">> /\ data = <<>>
       \/ args = <<"yamlvalid", "pod.yaml">> /\ data \in files \cup {<<>>, <<CompleteManifest>>}
    /\ root = ZeroNode
    /\ filename = ""
    /\ errors = <<>>
    /\ idx = 0
    /\ pc = "start"
    /\ stderr = <<>>
    /\ exitCode = NoExit

\* files of one to MaxDocs documents
MultiFiles ==
    UNION {[1..n -> {ValidManifest, NoMetadataManifest, BadVersionManifest}] : n \in 1..MaxDocs}

\* plain scalars that yaml.v3 tags !!int, as written in the file
PortLiterals ==
    {"0", "1", "80", "65535", "65536", "-1", "+80", "0x50", "0x0", "0x10000",
     "0o17", "0177777", "017", "1_000"}

CpuLiterals == {"0", "1", "-1", "0x2", "010"}

\* nodes that are not integer-kind scalars
NonIntNodes(l) ==
    {StrNode("80", l), StrNode("0", l), StrNode("http", l), Scalar("!!float", "80.5", l),
     Scalar("!!bool", "true", l), Scalar("!!null", "", l),
     Mapping(l, <<>>), Sequence(l, <<StrNode("80", l)>>)}

MemoryTexts ==
    {"512Mi", "1Gi", "64Ki", "1Ti", "2Pi", "3Ei", "512", "512mi", "1.5Gi", "-1Mi",
     "Mi", "1G", "1Mib", ""}

ImageTexts ==
    {"registry.bigbrother.io/app:latest", "registry.bigbrother.io/app",
     "other.io/app:latest", "registry.bigbrother.io/:tag", "registry.bigbrother.io/app:",
     "registry.bigbrother.io/", "registry.bigbrother.io/:", "registry.bigbrother.io/a:b:c",
     "app:latest", ""}

IntSlotLines ==
    ("c1.p1.containerPort" :> CB(1) + 3) @@ ("c1.p2.containerPort" :> CB(1) + 5)
    @@ ("c1.rp.port" :> CB(1) + 10) @@ ("c1.lp.port" :> CB(1) + 14)

CpuSlotLines == ("c1.limits.cpu" :> CB(1) + 17) @@ ("c1.requests.cpu" :> CB(1) + 20)

MemorySlotLines == ("c1.limits.memory" :> CB(1) + 18) @@ ("c1.requests.memory" :> CB(1) + 21)

\* manifests that differ from the valid one in one scalar
ScalarManifests ==
    {Build(Ov(s :> IntNode(t, IntSlotLines[s]))) : s \in DOMAIN IntSlotLines, t \in PortLiterals}
    \cup UNION {{Build(Ov(s :> n)) : n \in NonIntNodes(IntSlotLines[s])} : s \in DOMAIN IntSlotLines}
    \cup {Build(Ov(s :> IntNode(t, CpuSlotLines[s]))) : s \in DOMAIN CpuSlotLines, t \in CpuLiterals}
    \cup UNION {{Build(Ov(s :> n)) : n \in NonIntNodes(CpuSlotLines[s])} : s \in DOMAIN CpuSlotLines}
    \cup {Build(Ov(s :> StrNode(t, MemorySlotLines[s]))) :
             s \in DOMAIN MemorySlotLines, t \in MemoryTexts}
    \cup {Build(Ov("c1.limits.memory" :> IntNode("512", CB(1) + 18)))}
    \cup {Build(Ov("c" \o k \o ".image" :> StrNode(t, IF k = "1" THEN CB(1) + 1 ELSE CB(2) + 1))) :
             k \in {"1", "2"}, t \in ImageTexts}

\* a manifest with a wrong apiVersion and no spec
NoSpecBadVersionManifest == Build(Ov(("apiVersion" :> StrNode("v2", 1)) @@ ("spec" :> Nil)))

\* a manifest with a container without image whose name is malformed
NoImageBadNameManifest ==
    Build(Ov(("c1.image" :> Nil) @@ ("c1.name" :> StrNode("Web-App", CB(1)))))

\* values of spec.os: scalars, objects with and without a name, a sequence
OsNodes ==
    {StrNode(t, 9) : t \in {"linux", "windows", "plan9", "Linux", ""}}
    \cup {Scalar("!!null", "", 9), Mapping(10, <<>>),
          Sequence(10, <<StrNode("linux", 10)>>),
          Mapping(10, <<StrNode("name", 10), Sequence(10, <<StrNode("linux", 10)>>)>>)}
    \cup {Mapping(10, <<StrNode("name", 10), StrNode(t, 10)>>) :
             t \in {"linux", "windows", "plan9", ""}}

OsManifests == {Build(Ov("os" :> n)) : n \in OsNodes \cup {Nil}}

\* the required string-shaped fields, with the line of their key
StringSlotLines ==
    ("metadata.name" :> 4) @@ ("c1.name" :> CB(1)) @@ ("c2.name" :> CB(2))
    @@ ("c1.image" :> CB(1) + 1)
    @@ ("c1.rp.path" :> CB(1) + 9) @@ ("c1.lp.path" :> CB(1) + 13)

\* probe p of container 1 with the path text t and a port that is out of
\* range or quoted
BadProbeManifest(p, t, quoted) ==
    LET b == CB(1) + (IF p = "c1.rp" THEN 7 ELSE 11)
    IN  Build(Ov((p \o ".path" :> StrNode(t, b + 2))
                 @@ (p \o ".port" :> IF quoted THEN StrNode("80", b + 3)
                                      ELSE IntNode("0", b + 3))))

\* manifests with one required string present and empty, the manifest with
\* all of them empty, and manifests with a wrong path and a wrong port in
\* one probe
StringManifests ==
    {Build(Ov(s :> StrNode("", StringSlotLines[s]))) : s \in DOMAIN StringSlotLines}
    \cup {Build(Ov([s \in DOMAIN StringSlotLines |-> StrNode("", StringSlotLines[s])]))}
    \cup {BadProbeManifest(p, t, quoted) :
             p \in {"c1.rp", "c1.lp"}, t \in {"ready", ""}, quoted \in BOOLEAN}

\* a manifest whose two ports stand on one line and break the same rule,
\* as in "ports: [{containerPort: 0}, {containerPort: 0}]"
TwinPortsManifest ==
    Build(Ov(("c1.p1" :> Mapping(CB(1) + 2, <<StrNode("containerPort", CB(1) + 2),
                                               IntNode("0", CB(1) + 2)>>))
             @@ ("c1.p2" :> Mapping(CB(1) + 2, <<StrNode("containerPort", CB(1) + 2),
                                                  IntNode("0", CB(1) + 2)>>))))

Files ==
    MultiFiles
    \cup {<<d>> : d \in ScalarManifests \cup OsManifests \cup StringManifests}
    \cup {<<NoSpecBadVersionManifest>>, <<NoImageBadNameManifest>>, <<TwinPortsManifest>>,
          <<StrNode("just text", 1)>>}

\* the subsets of S of at most n elements
RECURSIVE SubsetsUpTo(_, _)
SubsetsUpTo(S, n) ==
    IF n = 0 THEN {{}}
    ELSE LET prev == SubsetsUpTo(S, n - 1)
         IN  prev \cup {T \cup {x} : T \in prev, x \in S}

MaxOmitted == 2

\* the slots of the required fields; "os" stands for os.name
RequiredSlots ==
    {"apiVersion", "kind", "metadata", "metadata.name", "spec", "os", "containers",
     "c1.name", "c1.image", "c1.resources", "c1.p1.containerPort", "c1.p2.containerPort",
     "c1.rp.httpGet", "c1.rp.path", "c1.rp.port",
     "c1.lp.httpGet", "c1.lp.path", "c1.lp.port",
     "c2.name", "c2.image", "c2.resources"}

\* the slot without its required field: the key left out, os: an object without name
Omitted(s) == IF s = "os" THEN Mapping(10, <<>>) ELSE Nil

\* a manifest with violations in many sections
Noisy ==
    [s \in Slots |->
        CASE s = "apiVersion" -> StrNode("v2", 1)
          [] s = "metadata.name" -> StrNode("", 4)
          [] s = "os" -> StrNode("plan9", 9)
          [] s = "c1.name" -> StrNode("Web-App", CB(1))
          [] s = "c1.p1.protocol" -> StrNode("SCTP", CB(1) + 4)
          [] s = "c1.p2.containerPort" -> IntNode("0", CB(1) + 5)
          [] s = "c1.rp.path" -> StrNode("ready", CB(1) + 9)
          [] s = "c1.lp.port" -> StrNode("80", CB(1) + 14)
          [] s = "c1.limits.cpu" -> IntNode("-1", CB(1) + 17)
          [] s = "c1.requests.memory" -> StrNode("1G", CB(1) + 21)
          [] s = "c2.image" -> StrNode("app", CB(2) + 1)
          [] OTHER -> Base[s]]

\* the valid and the noisy manifest with at most MaxOmitted required fields
\* left out
PresenceFiles ==
    {<<Build([s \in Slots |-> IF s \in S THEN Omitted(s) ELSE b[s]])>> :
        S \in SubsetsUpTo(RequiredSlots, MaxOmitted),
        b \in {Base, Noisy}}

InitPresence == InitWith(PresenceFiles)

SpecPresence == InitPresence /\ [][Next]_vars

MaxWrong == 2

\* the positions that must hold a mapping or a sequence, with the line of
\* a node put there
ShapeSlotLines ==
    ("metadata" :> 3) @@ ("spec" :> 8) @@ ("metadata.labels" :> 6)
    @@ ("c1" :> CB(1)) @@ ("c2" :> CB(2))
    @@ ("c1.ports" :> CB(1) + 2) @@ ("c1.p1" :> CB(1) + 3) @@ ("c1.p2" :> CB(1) + 5)
    @@ ("c1.rp" :> CB(1) + 7) @@ ("c1.rp.httpGet" :> CB(1) + 8)
    @@ ("c1.lp" :> CB(1) + 11) @@ ("c1.lp.httpGet" :> CB(1) + 12)
    @@ ("c1.resources" :> CB(1) + 15) @@ ("c1.limits" :> CB(1) + 16)
    @@ ("c1.requests" :> CB(1) + 19)

\* a node of the wrong kind for slot s: a scalar, or the other collection
\* with content that would be reported if it were looked at
WrongNode(s, how) ==
    LET l == ShapeSlotLines[s]
    IN  IF how = "scalar" THEN StrNode("oops", l)
        ELSE IF s = "c1.ports"
        THEN Mapping(l, <<StrNode("containerPort", l), IntNode("0", l)>>)
        ELSE Sequence(l, <<Mapping(l, <<StrNode("name", l), StrNode("", l)>>)>>)

\* the valid and the noisy manifest with at most MaxWrong nodes of the wrong kind
ShapeFiles ==
    {<<Build([s \in Slots |-> IF s \in S THEN WrongNode(s, how) ELSE b[s]])>> :
        S \in SubsetsUpTo(DOMAIN ShapeSlotLines, MaxWrong),
        how \in {"scalar", "other"},
        b \in {Base, Noisy}}

InitShape == InitWith(ShapeFiles)

SpecShape == InitShape /\ [][Next]_vars

Init == InitWith(Files)

Spec == Init /\ [][Next]_vars

-----------------------------------------------------------------------------
(* What the specification says of a document tree, stated on the tree      *)
(* itself: lookup by key, the schema's positions, the rules on values.     *)

\* the document handed to validateDocument, once the loop of main is over
Validated ==
    /\ prog = "part_001"
    /\ pc \in {"report", "exit"}
    /\ Len(root.Content) > 0
    /\ idx > Len(root.Content)

TheDoc == root.Content[1]

\* the value under key of a mapping with unique keys, Nil when there is none
FieldOf(m, key) ==
    IF m.Kind = "MappingNode"
       /\ \E i \in 1..(Len(m.Content) \div 2) : m.Content[2 * i - 1].Value = key
    THEN m.Content[2 * (CHOOSE i \in 1..(Len(m.Content) \div 2) :
                             m.Content[2 * i - 1].Value = key)]
    ELSE Nil

IsMapping(n) == n.Kind = "MappingNode"

IsScalar(n) == n.Kind = "ScalarNode"

Elements(n) == IF n.Kind = "SequenceNode" THEN {n.Content[i] : i \in 1..Len(n.Content)} ELSE {}

ContainerMaps(d) ==
    {c \in Elements(FieldOf(FieldOf(d, "spec"), "containers")) : IsMapping(c)}

PortEntries(c) == {e \in Elements(FieldOf(c, "ports")) : IsMapping(e)}

ProbeMaps(c) ==
    {q \in {FieldOf(c, "readinessProbe"), FieldOf(c, "livenessProbe")} : IsMapping(q)}

HttpGetMaps(c) == {h \in {FieldOf(q, "httpGet") : q \in ProbeMaps(c)} : IsMapping(h)}

ResourceMaps(c) ==
    {r \in {FieldOf(FieldOf(c, "resources"), k) : k \in {"limits", "requests"}} : IsMapping(r)}

\* the present values of the integer-typed fields, with the field's name
PortFields(d) ==
    UNION {{[node |-> FieldOf(e, "containerPort"), name |-> "containerPort"] :
               e \in PortEntries(c)}
           \cup {[node |-> FieldOf(h, "port"), name |-> "port"] : h \in HttpGetMaps(c)} :
           c \in ContainerMaps(d)}

CpuFields(d) ==
    UNION {{[node |-> FieldOf(r, "cpu"), name |-> "cpu"] : r \in ResourceMaps(c)} :
           c \in ContainerMaps(d)}

Present(fields) == {f \in fields : f.node # Nil}

IntKind(n) == IsScalar(n) /\ n.Tag = "!!int"

RECURSIVE StripUnderscores(_)
StripUnderscores(s) ==
    IF Len(s) = 0 THEN ""
    ELSE (IF CharAt(s, 1) = "_" THEN "" ELSE CharAt(s, 1)) \o StripUnderscores(Tail(s))

HexVal(c) ==
    CASE c \in Digits -> DigitVal(c)
      [] c \in {"a", "A"} -> 10 [] c \in {"b", "B"} -> 11 [] c \in {"c", "C"} -> 12
      [] c \in {"d", "D"} -> 13 [] c \in {"e", "E"} -> 14 [] c \in {"f", "F"} -> 15

RECURSIVE BaseValue(_, _)
BaseValue(s, base) ==
    IF Len(s) = 0 THEN 0
    ELSE base * BaseValue(SubSeq(s, 1, Len(s) - 1), base) + HexVal(CharAt(s, Len(s)))

\* the number an integer-kind scalar denotes: the parser reads it with the
\* base its prefix implies (0x, 0o, 0b, a leading 0 for octal), "_" dropped
YamlInt(text) ==
    LET plain  == StripUnderscores(text)
        signed == Len(plain) > 0 /\ CharAt(plain, 1) \in {"+", "-"}
        body   == IF signed THEN Tail(plain) ELSE plain
        rest   == SubSeq(body, 3, Len(body))
        mag    == IF HasPrefix(body, "0x") THEN BaseValue(rest, 16)
                  ELSE IF HasPrefix(body, "0o") THEN BaseValue(rest, 8)
                  ELSE IF HasPrefix(body, "0b") THEN BaseValue(rest, 2)
                  ELSE IF Len(body) > 1 /\ CharAt(body, 1) = "0" THEN BaseValue(Tail(body), 8)
                  ELSE BaseValue(body, 10)
    IN  IF signed /\ CharAt(plain, 1) = "-" THEN 0 - mag ELSE mag

PortInRange(n) == IntKind(n) /\ YamlInt(n.Value) >= 1 /\ YamlInt(n.Value) <= 65535

\* Prefixed-tagged-reference: the prefix, then a colon that is neither the
\* first nor the last character of the rest
TaggedReference(text) ==
    /\ HasPrefix(text, "registry.bigbrother.io/")
    /\ LET rest == SubSeq(text, Len("registry.bigbrother.io/") + 1, Len(text))
       IN  \E i \in 2..(Len(rest) - 1) : CharAt(rest, i) = ":"

BinaryUnits == {"Ki", "Mi", "Gi", "Ti", "Pi", "Ei"}

\* Quantity-with-unit: ^[0-9]+(<unit>)$
Quantity(text, units) ==
    /\ Len(text) >= 3
    /\ SubSeq(text, Len(text) - 1, Len(text)) \in units
    /\ AllDigits(SubSeq(text, 1, Len(text) - 2))

\* the diagnostics of the list that carry the line l
DiagsAt(l) == SelectSeq(errors, LAMBDA e : e.line = l)

Messages(ds) == [i \in 1..Len(ds) |-> ds[i].msg]

\* the shape and content rules of section 4.4; with required = FALSE a
\* required field may be absent, and what is present must still be valid
OkPort(e, required) ==
    /\ IF FieldOf(e, "containerPort") = Nil THEN ~required
       ELSE PortInRange(FieldOf(e, "containerPort"))
    /\ FieldOf(e, "protocol") # Nil =>
          IsScalar(FieldOf(e, "protocol")) /\ FieldOf(e, "protocol").Value \in {"TCP", "UDP"}

OkHttpGet(h, required) ==
    /\ IsMapping(h)
    /\ IF FieldOf(h, "path") = Nil THEN ~required
       ELSE IsScalar(FieldOf(h, "path")) /\ HasPrefix(FieldOf(h, "path").Value, "/")
    /\ IF FieldOf(h, "port") = Nil THEN ~required ELSE PortInRange(FieldOf(h, "port"))

OkProbe(q, required) ==
    /\ IsMapping(q)
    /\ IF FieldOf(q, "httpGet") = Nil THEN ~required
       ELSE OkHttpGet(FieldOf(q, "httpGet"), required)

OkValues(r) ==
    /\ IsMapping(r)
    /\ FieldOf(r, "cpu") # Nil =>
          IntKind(FieldOf(r, "cpu")) /\ YamlInt(FieldOf(r, "cpu").Value) >= 0
    /\ FieldOf(r, "memory") # Nil =>
          IsScalar(FieldOf(r, "memory")) /\ Quantity(FieldOf(r, "memory").Value, BinaryUnits)

OkResources(r) ==
    /\ IsMapping(r)
    /\ FieldOf(r, "limits") # Nil => OkValues(FieldOf(r, "limits"))
    /\ FieldOf(r, "requests") # Nil => OkValues(FieldOf(r, "requests"))

OkContainer(c, required) ==
    /\ IsMapping(c)
    /\ IF FieldOf(c, "name") = Nil THEN ~required
       ELSE IsScalar(FieldOf(c, "name")) /\ MatchSnakeCase(FieldOf(c, "name").Value)
    /\ IF FieldOf(c, "image") = Nil THEN ~required
       ELSE IsScalar(FieldOf(c, "image")) /\ TaggedReference(FieldOf(c, "image").Value)
    /\ FieldOf(c, "ports") # Nil =>
          /\ FieldOf(c, "ports").Kind = "SequenceNode"
          /\ \A e \in Elements(FieldOf(c, "ports")) : IsMapping(e) /\ OkPort(e, required)
    /\ FieldOf(c, "readinessProbe") # Nil => OkProbe(FieldOf(c, "readinessProbe"), required)
    /\ FieldOf(c, "livenessProbe") # Nil => OkProbe(FieldOf(c, "livenessProbe"), required)
    /\ IF FieldOf(c, "resources") = Nil THEN ~required
       ELSE OkResources(FieldOf(c, "resources"))

OkOS(o, required) ==
    \/ IsScalar(o) /\ o.Value \in {"linux", "windows"}
    \/ /\ IsMapping(o)
       /\ IF FieldOf(o, "name") = Nil THEN ~required
          ELSE IsScalar(FieldOf(o, "name")) /\ FieldOf(o, "name").Value \in {"linux", "windows"}

OkSpec(sp, required) ==
    /\ IsMapping(sp)
    /\ FieldOf(sp, "os") # Nil => OkOS(FieldOf(sp, "os"), required)
    /\ IF FieldOf(sp, "containers") = Nil THEN ~required
       ELSE /\ FieldOf(sp, "containers").Kind = "SequenceNode"
            /\ Len(FieldOf(sp, "containers").Content) > 0
            /\ \A c \in Elements(FieldOf(sp, "containers")) : OkContainer(c, required)

OkMetadata(m, required) ==
    /\ IsMapping(m)
    /\ IF FieldOf(m, "name") = Nil THEN ~required
       ELSE IsScalar(FieldOf(m, "name")) /\ FieldOf(m, "name").Value # ""
    /\ FieldOf(m, "namespace") # Nil => IsScalar(FieldOf(m, "namespace"))
    /\ FieldOf(m, "labels") # Nil =>
          /\ IsMapping(FieldOf(m, "labels"))
          /\ \A i \in 1..Len(FieldOf(m, "labels").Content) :
                 IsScalar(FieldOf(m, "labels").Content[i])

OkDocument(d, required) ==
    /\ IsMapping(d)
    /\ IF FieldOf(d, "apiVersion") = Nil THEN ~required
       ELSE IsScalar(FieldOf(d, "apiVersion")) /\ FieldOf(d, "apiVersion").Value = "v1"
    /\ IF FieldOf(d, "kind") = Nil THEN ~required
       ELSE IsScalar(FieldOf(d, "kind")) /\ FieldOf(d, "kind").Value = "Pod"
    /\ IF FieldOf(d, "metadata") = Nil THEN ~required
       ELSE OkMetadata(FieldOf(d, "metadata"), required)
    /\ IF FieldOf(d, "spec") = Nil THEN ~required
       ELSE OkSpec(FieldOf(d, "spec"), required)

-----------------------------------------------------------------------------
(* The claims.                                                             *)

\* C1: a document in which every required field is present and everything
\* present is valid gets no diagnostic: the list stays empty.
C1_ValidDocumentNoDiagnostic ==
    (Validated /\ OkDocument(TheDoc, TRUE)) => errors = <<>>

\* C3: an integer-typed field (containerPort, httpGet.port, cpu) whose value
\* is not an integer-kind scalar gets exactly one "must be int" diagnostic
\* and no range diagnostic; an integer-kind value in range gets none.
C3_IntegerKindEnforced ==
    Validated =>
      /\ \A f \in Present(PortFields(TheDoc) \cup CpuFields(TheDoc)) :
            ~IntKind(f.node) =>
               Messages(DiagsAt(f.node.Line)) = <<f.name \o " must be int">>
      /\ \A f \in Present(PortFields(TheDoc)) :
            PortInRange(f.node) => DiagsAt(f.node.Line) = <<>>
      /\ \A f \in Present(CpuFields(TheDoc)) :
            (IntKind(f.node) /\ YamlInt(f.node.Value) >= 0) => DiagsAt(f.node.Line) = <<>>

\* C4: a containerPort or httpGet.port that is an integer-kind scalar of
\* value v gets exactly one "value out of range" diagnostic when v < 1 or
\* v > 65535, and no diagnostic when 1 <= v <= 65535.
C4_PortRangeChecked ==
    Validated =>
      \A f \in Present(PortFields(TheDoc)) :
         IntKind(f.node) =>
            Messages(DiagsAt(f.node.Line)) =
               IF YamlInt(f.node.Value) < 1 \/ YamlInt(f.node.Value) > 65535
               THEN <<f.name \o " value out of range">>
               ELSE <<>>

\* C5: for a file of N >= 1 documents validateDocument runs once per
\* document, in file order, into one list; a file with the valid manifest
\* and the one without metadata ends with "metadata is required" alone,
\* whichever comes first.
C5_OncePerDocument ==
    (pc = "report" /\ Len(data) >= 1) =>
      /\ idx - 1 = Len(data)
      /\ data \in {<<ValidManifest, NoMetadataManifest>>,
                   <<NoMetadataManifest, ValidManifest>>} =>
            Messages(errors) = <<"metadata is required">>

\* the number of the top-level section a diagnostic is about (1 apiVersion,
\* 2 kind, 3 metadata, 4 spec), 0 when the diagnostic does not tell
NodeLines(n) ==
    LET RECURSIVE lines(_)
        lines(m) == {m.Line} \cup UNION {lines(m.Content[i]) : i \in 1..Len(m.Content)}
    IN  lines(n)

TopSections == <<"apiVersion", "kind", "metadata", "spec">>

SectionOf(d, e) ==
    IF e.line = NoLine
    THEN CASE e.msg = "apiVersion is required" -> 1
           [] e.msg = "kind is required" -> 2
           [] e.msg = "metadata is required" -> 3
           [] e.msg \in {"spec is required", "containers is required", "image is required",
                         "resources is required", "containerPort is required",
                         "path is required", "port is required"} -> 4
           [] OTHER -> 0
    ELSE LET in == {r \in 1..4 : /\ FieldOf(d, TopSections[r]) # Nil
                                 /\ e.line \in NodeLines(FieldOf(d, TopSections[r]))}
         IN  IF Cardinality(in) = 1 THEN CHOOSE r \in in : TRUE ELSE 0

\* C6: the diagnostics are in declaration order of the fields they are
\* about, presence diagnostics included: none about a later top-level
\* section (apiVersion, kind, metadata, spec) precedes one about an earlier.
C6_DeclarationOrder ==
    (Validated /\ IsMapping(TheDoc)) =>
      \A i, j \in 1..Len(errors) :
         (i < j /\ SectionOf(TheDoc, errors[i]) # 0 /\ SectionOf(TheDoc, errors[j]) # 0)
            => SectionOf(TheDoc, errors[i]) <= SectionOf(TheDoc, errors[j])

\* C7: a scalar image is accepted if and only if its text starts with
\* "registry.bigbrother.io/" and the rest holds a colon that is neither its
\* first nor its last character; any other scalar image gets exactly one
\* "image has invalid format" diagnostic.
C7_ImageReference ==
    Validated =>
      \A c \in ContainerMaps(TheDoc) :
         (FieldOf(c, "image") # Nil /\ IsScalar(FieldOf(c, "image"))) =>
            Messages(DiagsAt(FieldOf(c, "image").Line)) =
               IF TaggedReference(FieldOf(c, "image").Value) THEN <<>>
               ELSE <<"image has invalid format '%s'">>

\* C8: a scalar memory under limits or requests is accepted if and only if
\* it is decimal digits followed by one of Ki, Mi, Gi, Ti, Pi, Ei; any other
\* scalar memory gets exactly one "memory has invalid format" diagnostic.
C8_MemoryQuantity ==
    Validated =>
      \A c \in ContainerMaps(TheDoc) : \A r \in ResourceMaps(c) :
         (FieldOf(r, "memory") # Nil /\ IsScalar(FieldOf(r, "memory"))) =>
            Messages(DiagsAt(FieldOf(r, "memory").Line)) =
               IF Quantity(FieldOf(r, "memory").Value, BinaryUnits) THEN <<>>
               ELSE <<"memory has invalid format '%s'">>

\* C10: every diagnostic carries the 1-based line of a node of the
\* document; "<field> is required" for an absent top-level field carries
\* the line of the document mapping it is missing from.
C10_LineOfANode ==
    Validated =>
      /\ \A i \in 1..Len(errors) : errors[i].line \in NodeLines(TheDoc)
      /\ \A k \in {"apiVersion", "kind", "metadata", "spec"} :
            (IsMapping(TheDoc) /\ FieldOf(TheDoc, k) = Nil) =>
               \E i \in 1..Len(errors) :
                  errors[i].msg = k \o " is required" /\ errors[i].line = TheDoc.Line

\* C8 (amended): a scalar memory under limits or requests is accepted if and
\* only if it is decimal digits followed by one of Ki, Mi, Gi; any other
\* scalar memory, 1Ti, 2Pi and 3Ei included, gets exactly one "memory has
\* invalid format" diagnostic.
C8_MemoryQuantityKiMiGi ==
    Validated =>
      \A c \in ContainerMaps(TheDoc) : \A r \in ResourceMaps(c) :
         (FieldOf(r, "memory") # Nil /\ IsScalar(FieldOf(r, "memory"))) =>
            Messages(DiagsAt(FieldOf(r, "memory").Line)) =
               IF Quantity(FieldOf(r, "memory").Value, {"Ki", "Mi", "Gi"}) THEN <<>>
               ELSE <<"memory has invalid format '%s'">>

\* C8 witness: a validated document with a memory of unit Ti, rejected
C8_Witness ==
    /\ Validated
    /\ \E c \in ContainerMaps(TheDoc) : \E r \in ResourceMaps(c) :
          /\ FieldOf(r, "memory").Value = "1Ti"
          /\ Messages(DiagsAt(FieldOf(r, "memory").Line)) = <<"memory has invalid format '%s'">>

\* the node at a path of Content indices, and the tree with it replaced
RECURSIVE NodeAt(_, _)
NodeAt(n, path) == IF path = <<>> THEN n ELSE NodeAt(n.Content[Head(path)], Tail(path))

RECURSIVE ReplaceAt(_, _, _)
ReplaceAt(n, path, new) ==
    IF path = <<>> THEN new
    ELSE [n EXCEPT !.Content[Head(path)] = ReplaceAt(n.Content[Head(path)], Tail(path), new)]

ValueIndex(m, key) ==
    IF FieldOf(m, key) = Nil THEN 0
    ELSE 2 * (CHOOSE i \in 1..(Len(m.Content) \div 2) : m.Content[2 * i - 1].Value = key)

GoodContainer == FieldOf(FieldOf(ValidManifest, "spec"), "containers").Content[1]

\* the position of the value of key under the mappings at the paths ps
Under(d, ps, key, expect, msg, good) ==
    {[path |-> Append(q, ValueIndex(NodeAt(d, q), key)), expect |-> expect, msg |-> msg,
      good |-> good] :
        q \in {r \in ps : IsMapping(NodeAt(d, r)) /\ ValueIndex(NodeAt(d, r), key) > 0}}

\* the positions of the elements of the sequences at the paths ps
ElementsUnder(d, ps, msg, good) ==
    UNION {{[path |-> Append(q, i), expect |-> "MappingNode", msg |-> msg, good |-> good] :
               i \in 1..Len(NodeAt(d, q).Content)} :
           q \in {r \in ps : NodeAt(d, r).Kind = "SequenceNode"}}

Paths(positions) == {q.path : q \in positions}

\* the positions of a document that must hold a mapping or a sequence, each
\* with the diagnostic of a wrong kind there and a valid node for the place
ShapePositions(d) ==
    LET M == "MappingNode"
        S == "SequenceNode"
        meta     == Under(d, {<<>>}, "metadata", M, "metadata must be object",
                          FieldOf(ValidManifest, "metadata"))
        spec     == Under(d, {<<>>}, "spec", M, "spec must be object",
                          FieldOf(ValidManifest, "spec"))
        labels   == Under(d, Paths(meta), "labels", M, "labels must be object", Mapping(7, <<>>))
        conts    == Under(d, Paths(spec), "containers", S, "containers must be array",
                          FieldOf(FieldOf(ValidManifest, "spec"), "containers"))
        elems    == ElementsUnder(d, Paths(conts), "container must be object", GoodContainer)
        ports    == Under(d, Paths(elems), "ports", S, "ports must be array",
                          FieldOf(GoodContainer, "ports"))
        entries  == ElementsUnder(d, Paths(ports), "ports entry must be object",
                                  FieldOf(GoodContainer, "ports").Content[1])
        rp       == Under(d, Paths(elems), "readinessProbe", M, "readinessProbe must be object",
                          FieldOf(GoodContainer, "readinessProbe"))
        lp       == Under(d, Paths(elems), "livenessProbe", M, "livenessProbe must be object",
                          FieldOf(GoodContainer, "livenessProbe"))
        httpGet  == Under(d, Paths(rp \cup lp), "httpGet", M, "httpGet must be object",
                          FieldOf(FieldOf(GoodContainer, "readinessProbe"), "httpGet"))
        res      == Under(d, Paths(elems), "resources", M, "resources must be object",
                          FieldOf(GoodContainer, "resources"))
        limits   == Under(d, Paths(res), "limits", M, "limits must be object",
                          FieldOf(FieldOf(GoodContainer, "resources"), "limits"))
        requests == Under(d, Paths(res), "requests", M, "requests must be object",
                          FieldOf(FieldOf(GoodContainer, "resources"), "limits"))
    IN  meta \cup spec \cup labels \cup elems \cup ports \cup entries \cup rp \cup lp
        \cup httpGet \cup res \cup limits \cup requests

WrongPositions(d) == {q \in ShapePositions(d) : NodeAt(d, q.path).Kind # q.expect}

\* ds is base with the diagnostic dg put in at some place
InsertedInto(ds, base, dg) ==
    \E k \in 0..Len(base) :
       ds = SubSeq(base, 1, k) \o <<dg>> \o SubSeq(base, k + 1, Len(base))

Count(ds, m) == Len(SelectSeq(ds, LAMBDA e : e.msg = m))

\* the paths among ps that hold a mapping, the paths of the values of key
\* under the mappings at ps, and the paths of the elements of the sequences
\* at ps
MappingsAt(d, ps) == {q \in ps : IsMapping(NodeAt(d, q))}

Field(d, ps, key) == Paths(Under(d, ps, key, "", "", Nil))

Items(d, ps) == Paths(ElementsUnder(d, ps, "", Nil))

RequiredAt(ps, key, msg, lined, good) ==
    {[path |-> q, key |-> key, msg |-> msg, lined |-> lined, good |-> good] : q \in ps}

\* the required-field positions of a document: the mappings the schema puts
\* a required field in, with the field's key, its diagnostic, whether the
\* diagnostic carries the mapping's line, and a valid value for the field
RequiredPositions(d) ==
    LET top      == MappingsAt(d, {<<>>})
        meta     == MappingsAt(d, Field(d, top, "metadata"))
        spec     == MappingsAt(d, Field(d, top, "spec"))
        os       == MappingsAt(d, Field(d, spec, "os"))
        conts    == MappingsAt(d, Items(d, Field(d, spec, "containers")))
        entries  == MappingsAt(d, Items(d, Field(d, conts, "ports")))
        probes   == MappingsAt(d, Field(d, conts, "readinessProbe")
                                  \cup Field(d, conts, "livenessProbe"))
        httpGets == MappingsAt(d, Field(d, probes, "httpGet"))
        V        == ValidManifest
        G        == GoodContainer
        P        == FieldOf(G, "readinessProbe")
        H        == FieldOf(P, "httpGet")
    IN  UNION {RequiredAt(top, k, k \o " is required", FALSE, FieldOf(V, k)) :
                  k \in {"apiVersion", "kind", "metadata", "spec"}}
        \cup RequiredAt(meta, "name", "name is required", FALSE,
                        FieldOf(FieldOf(V, "metadata"), "name"))
        \cup RequiredAt(spec, "containers", "containers is required", FALSE,
                        FieldOf(FieldOf(V, "spec"), "containers"))
        \cup RequiredAt(os, "name", "os.name is required", TRUE, StrNode("linux", 10))
        \cup UNION {RequiredAt(conts, k, k \o " is required", FALSE, FieldOf(G, k)) :
                       k \in {"name", "image", "resources"}}
        \cup RequiredAt(entries, "containerPort", "containerPort is required", FALSE,
                        FieldOf(FieldOf(G, "ports").Content[1], "containerPort"))
        \cup RequiredAt(probes, "httpGet", "httpGet is required", TRUE, H)
        \cup UNION {RequiredAt(httpGets, k, k \o " is required", FALSE, FieldOf(H, k)) :
                       k \in {"path", "port"}}

Missing(d) == {o \in RequiredPositions(d) : FieldOf(NodeAt(d, o.path), o.key) = Nil}

RequiredMessages == {o.msg : o \in RequiredPositions(ValidManifest)}

\* the document with the absent field of o filled in with a valid value
Filled(d, o) ==
    ReplaceAt(d, o.path,
              [NodeAt(d, o.path) EXCEPT
                  !.Content = @ \o <<StrNode(o.key, NodeAt(d, o.path).Line), o.good>>])

\* C2: each required field absent from its parent mapping gets exactly one
\* "<field> is required" diagnostic and nothing cascades from the absence:
\* the list is that of the document with the field filled in with a valid
\* value, plus that one diagnostic.
C2_OnePresenceDiagnostic ==
    Validated =>
      /\ \A m \in RequiredMessages :
            Count(errors, m) = Cardinality({o \in Missing(TheDoc) : o.msg = m})
      /\ \A o \in Missing(TheDoc) :
            InsertedInto(errors,
                         validateDocument(Filled(TheDoc, o), filename, <<>>),
                         Diag(filename,
                              IF o.lined THEN NodeAt(TheDoc, o.path).Line ELSE NoLine,
                              o.msg, ""))

\* C2 witness: a validated document with two or more absent required
\* fields, one diagnostic for each, among diagnostics of other fields
C2_Witness ==
    /\ Validated
    /\ Cardinality(Missing(TheDoc)) >= 2
    /\ Len(errors) > Cardinality(Missing(TheDoc))
    /\ \A o \in Missing(TheDoc) : Count(errors, o.msg) = 1

\* C9: a node of the wrong kind for its position gets exactly one "must be
\* object/array" diagnostic on its line, nothing in it is checked, and the
\* rest of the document is validated as if the node were valid: the list is
\* that of the document with a valid node in its place, plus that diagnostic.
C9_WrongKindOnlyCutsSubtree ==
    (Validated /\ IsMapping(TheDoc)) =>
      \A q \in WrongPositions(TheDoc) :
         InsertedInto(errors,
                      validateDocument(ReplaceAt(TheDoc, q.path, q.good), filename, <<>>),
                      Diag(filename, NodeAt(TheDoc, q.path).Line, q.msg, ""))

\* C9 witness: a validated document with a node of the wrong kind, reported
\* once, among diagnostics of other fields
C9_Witness ==
    /\ Validated
    /\ IsMapping(TheDoc)
    /\ \E q \in WrongPositions(TheDoc) :
          /\ Count(errors, q.msg) = 1
          /\ Len(errors) >= 4

-----------------------------------------------------------------------------
(* The full variant as a function of the tree, and its sink.               *)

IsPrefix(a, b) == Len(a) <= Len(b) /\ SubSeq(b, 1, Len(a)) = a

\* the documents of the file whose apiVersion is a scalar other than v1
BadVersionDocs ==
    {i \in 1..Len(data) :
        /\ IsMapping(data[i])
        /\ IsScalar(FieldOf(data[i], "apiVersion"))
        /\ FieldOf(data[i], "apiVersion").Value # "v1"}

\* the port entries of d, by container and place in ports, whose
\* containerPort is the integer 0 written on line l
ZeroPortsAt(d, l) ==
    LET conts == FieldOf(FieldOf(d, "spec"), "containers")
        ports(k) == FieldOf(conts.Content[k], "ports")
    IN  {<<k, i>> \in (1..Len(conts.Content)) \X (1..4) :
            /\ IsMapping(conts.Content[k])
            /\ ports(k).Kind = "SequenceNode"
            /\ i <= Len(ports(k).Content)
            /\ FieldOf(ports(k).Content[i], "containerPort") = IntNode("0", l)}

\* C12: in the full variant every step leaves the list as it was or longer
\* by entries at its end, and equal violations keep their own entries: as
\* many "apiVersion has unsupported value" as the file has documents with
\* such an apiVersion, and on every line as many "containerPort value out
\* of range" as there are ports 0 written on that line.
C12_AppendOnlySink ==
    /\ [][prog = "part_001" => IsPrefix(errors, errors')]_vars
    /\ [](Validated =>
            /\ Count(errors, "apiVersion has unsupported value '%s'")
                  = Cardinality(BadVersionDocs)
            /\ \A l \in NodeLines(TheDoc) :
                  Count(DiagsAt(l), "containerPort value out of range")
                     >= Cardinality(ZeroPortsAt(TheDoc, l)))

\* C13: once yaml.Unmarshal has built the tree, no step of the full variant
\* changes it: kind, tag, value, line and children of every node stay what
\* the parser made of the file, through lookups and validators alike.
C13_TreeReadOnly ==
    [][(prog = "part_001" /\ pc \in {"validate", "report"}) =>
          /\ root' = root
          /\ root = IF Len(data) = 0 THEN ZeroNode ELSE DocumentNode(<<data[1]>>)
          /\ data' = data]_vars

\* C13 witness: a run that has looked fields up and reported some, with the
\* tree as the parser built it
C13_Witness ==
    /\ Validated
    /\ Len(errors) >= 2
    /\ root = DocumentNode(<<data[1]>>)

-----------------------------------------------------------------------------
(* Rules of single fields.                                                 *)

\* the os of a document whose spec is a mapping, Nil when it has none
OsOf(d) == FieldOf(FieldOf(d, "spec"), "os")

\* the diagnostics about os
OsDiags ==
    SelectSeq(errors, LAMBDA e :
        e.msg \in {"os.name is required", "os.name must be string",
                   "os must be string or object", "os has unsupported value '%s'"})

\* the resolved name of an os: its text when it is a scalar, the text of
\* its name when it is a mapping with a scalar name; <<>> when it has none
ResolvedOs(os) ==
    IF IsScalar(os) THEN <<os.Value>>
    ELSE IF IsMapping(os) /\ IsScalar(FieldOf(os, "name")) THEN <<FieldOf(os, "name").Value>>
    ELSE <<>>

\* C14: a present os gets no diagnostic when its resolved name is linux or
\* windows, and exactly one diagnostic in every other case: another text,
\* the empty text, an object without name or with a name that is not a
\* scalar, a sequence.
C14_OsRule ==
    (Validated /\ OsOf(TheDoc) # Nil) =>
       Len(OsDiags) = IF ResolvedOs(OsOf(TheDoc)) \in {<<"linux">>, <<"windows">>}
                      THEN 0 ELSE 1

\* main.go has run its rules on the mapping d
maingo_Validated ==
    /\ prog = "main.go"
    /\ pc \in {"report", "exit"}
    /\ root.Kind = "DocumentNode"
    /\ maingo_rootMap.Kind = "MappingNode"

\* C15: main.go reports every containerPort, probe port and cpu whose
\* scalar is not tagged !!int, the quoted "80" and "2" included: there is a
\* diagnostic on the line of each such value.
C15_NoStringifiedNumbers ==
    maingo_Validated =>
       \A f \in Present(PortFields(maingo_rootMap) \cup CpuFields(maingo_rootMap)) :
          (IsScalar(f.node) /\ f.node.Tag # "!!int") => Len(DiagsAt(f.node.Line)) >= 1

-----------------------------------------------------------------------------
(* The report of the three mains.                                          *)

\* C16: a main that exits after the file has been read and parsed has
\* printed the list, one diagnostic per line in list order, and exits with
\* a non-zero status exactly when the list is not empty.
C16_ExitStatus ==
    [][(pc \in {"validate", "report"} /\ pc' = "exit") =>
          /\ stderr' = errors
          /\ (exitCode' # 0) <=> (Len(errors) > 0)]_vars

\* C16 (amended): a main that exits from its report has printed the list in
\* list order and exits with status 1 when the list is not empty and with
\* status 0 when it is empty; the full variant always exits from its
\* report, and main.go and the minimal variant exit before it, with one
\* line printed, an empty list and status 1, when the root is no mapping.
C16_ExitStatusOfTheReport ==
    [][/\ (pc = "report" /\ pc' = "exit") =>
             /\ stderr' = errors
             /\ errors' = errors
             /\ exitCode' = IF Len(errors) > 0 THEN 1 ELSE 0
       /\ (pc = "validate" /\ pc' = "exit") =>
             /\ prog # "part_001"
             /\ (IF root.Kind = "DocumentNode" /\ Len(root.Content) > 0
                  THEN root.Content[1] ELSE root).Kind # "MappingNode"
             /\ errors = <<>>
             /\ Len(stderr') = 1
             /\ exitCode' = 1]_vars

\* C16 witness: main.go has printed a list of several diagnostics and
\* exited with status 1
C16_Witness ==
    /\ prog = "main.go"
    /\ pc = "exit"
    /\ Len(errors) >= 2
    /\ stderr = errors
    /\ exitCode = 1

-----------------------------------------------------------------------------
(* Empty strings, probes, and the minimal variant against the full one.    *)

\* the required string-shaped fields of d that are present: metadata.name,
\* the name and image of every container, the path of every httpGet
StringFields(d) ==
    {[node |-> FieldOf(FieldOf(d, "metadata"), "name"), name |-> "name"]}
    \cup UNION {{[node |-> FieldOf(c, "name"), name |-> "name"],
                 [node |-> FieldOf(c, "image"), name |-> "image"]}
                \cup {[node |-> FieldOf(h, "path"), name |-> "path"] : h \in HttpGetMaps(c)} :
                c \in ContainerMaps(d)}

\* C17: a required string-shaped field that is present with the empty
\* string gets exactly one diagnostic, "<field> is required", on the line
\* of its key, and no diagnostic about its format.
C17_EmptyStringIsAbsent ==
    Validated =>
       \A f \in Present(StringFields(TheDoc)) :
          (IsScalar(f.node) /\ f.node.Value = "") =>
             Messages(DiagsAt(f.node.Line)) = <<f.name \o " is required">>

\* the present probes of the containers of d
ProbesOf(d) ==
    UNION {{FieldOf(c, k) : k \in {"readinessProbe", "livenessProbe"}} \ {Nil} :
           c \in ContainerMaps(d)}

\* the diagnostics on the lines of the node q
DiagsIn(q) == SelectSeq(errors, LAMBDA e : e.line # NoLine /\ e.line \in NodeLines(q))

\* a diagnostic for the probe q: one on its lines, or the "path is
\* required" or "port is required" of its httpGet
ProbeReported(q) ==
    \/ Len(DiagsIn(q)) > 0
    \/ /\ IsMapping(q)
       /\ IsMapping(FieldOf(q, "httpGet"))
       /\ \E k \in {"path", "port"} :
             /\ FieldOf(FieldOf(q, "httpGet"), k) = Nil
             /\ Count(errors, k \o " is required") >= 1

\* C18: a present probe, readiness or liveness, gets no diagnostic exactly
\* when it is a mapping whose httpGet is a mapping with a scalar path
\* starting with "/" and an integer port in 1..65535; a probe mapping
\* without httpGet gets "httpGet is required" and nothing else; an httpGet
\* with a wrong path and a wrong port gets two diagnostics, path first.
C18_ProbeRule ==
    Validated =>
       \A q \in ProbesOf(TheDoc) :
          LET h    == FieldOf(q, "httpGet")
              path == FieldOf(h, "path")
              port == FieldOf(h, "port")
          IN  /\ ProbeReported(q) <=> ~OkProbe(q, TRUE)
              /\ (IsMapping(q) /\ h = Nil) =>
                     Messages(DiagsIn(q)) = <<"httpGet is required">>
              /\ (/\ IsMapping(q) /\ IsMapping(h) /\ path # Nil /\ port # Nil
                   /\ ~(IsScalar(path) /\ HasPrefix(path.Value, "/"))
                   /\ ~PortInRange(port)) =>
                     /\ Len(DiagsIn(q)) = 2
                     /\ DiagsIn(q)[1].line = path.Line
                     /\ DiagsIn(q)[2].line = port.Line

\* C19: on a document with unique keys, wherever the minimal variant puts
\* a diagnostic the full variant puts one too, on the line of that node; a
\* document the minimal variant rejects is rejected by the full one.
C19_FullCoversMinimal ==
    (Validated /\ IsMapping(TheDoc)) =>
       LET minimal == part000_rules(TheDoc, filename)
       IN  /\ \A i \in 1..Len(minimal) : Len(DiagsAt(minimal[i].line)) >= 1
           /\ Len(minimal) > 0 => Len(errors) > 0

====
